---- MODULE Spec2Model ----
(***************************************************************************)
(* A model of the metrics pipeline of athenian-api:                        *)
(*   - the request planner  (align/queries/metrics.py),                    *)
(*   - the check-run miner  (controllers/miners/github/check_run.py),      *)
(*   - the check-run timeline (controllers/features/github/                *)
(*     check_run_filter.py).                                               *)
(* Each component has its own variables and its own specification; the     *)
(* variables of the other components stay at their initial value.          *)
(***************************************************************************)
EXTENDS Integers, Sequences, FiniteSets, TLC

VARIABLES
    \* ---- request planner (calculate_team_metrics)
    requests,           \* the Sequence[TeamMetricsRequest] handed to calculate_team_metrics
    plan_pc,            \* "building" | "awaiting" | "done" | "failed"
    simplified,         \* the result of _simplify_requests
    collectors,         \* the _requests list of the PR, release and JIRA collectors
    tasks,              \* the batched mining calls that were issued, in order
    team_metrics_res,   \* TeamMetricsResult: interval -> metric -> team id -> value
    error,              \* the error raised to the caller, or NoError
    \* ---- check-run miner (mine_check_runs)
    mdb,                \* the check-run rows of the metadata store, one per (run, PR)
    df,                 \* the DataFrame of check runs, a sequence of rows
    df_in,              \* the DataFrame as the last step of mine_check_runs received it
    cr_pc,              \* the position inside mine_check_runs
    \* ---- check-run timeline (_build_timeline)
    time_from,
    time_to,
    timeline,
    tl_pc,
    \* ---- storage gateway (ParallelDatabase, ExecuteManyConnection)
    dialect,    \* the dialect of the connected store, "none" before connect()
    serialization_lock,    \* ParallelDatabase._serialization_lock: "None", "free" or "held"
    connections,    \* the ExecuteManyConnection objects: their _locked flag
    db_tasks,    \* the tasks that use the store: connection, open transaction, position
    \* ---- retrying store call (measure_db_overhead_and_retry)
    connection,    \* the backend connection of the wrapped call
    wait_intervals,    \* the schedule chosen by the call
    attempts,    \* the outcomes of the attempts made so far
    slept,    \* the waits made so far, in tenths of a second
    retry_pc,    \* "idle", "calling", "sleeping", "returned" or "raised"
    \* ---- account heater (hacks/heat_cache.py)
    state_db,    \* rows of the RepositorySet table of the state store
    accounts,    \* ids of the active accounts, as queried
    account,    \* loop variable of the progress loop, 0 while unbound
    account_progress_settings,    \* account id -> loaded progress state
    reposets,    \* the fetched reposets
    reposet_i,    \* position of the reposet loop
    return_code,
    failed_accounts,
    successful_accounts,
    log,    \* records written to the log
    calls,    \* mining and store operations called, with their account argument
    exit_code,    \* what main() returned
    heater_pc,
    \* ---- NumpyStruct (typing_utils.py)
    struct_kwargs,    \* the values given to from_fields()
    struct_data,    \* NumpyStruct._data, the bytes of the struct
    struct_fields,    \* the values read through the properties of the struct
    struct_pc,    \* "idle", "built" or "read"
    \* ---- pr-review-time (ReviewTimeCalculator)
    times,    \* the PullRequestTimes of the analyzed pull request
    review_time,    \* what analyze() returned
    review_pc,    \* "idle", "mined" or "analyzed"
    \* ---- confidence score (Metric.confidence_score)
    self_metric,    \* the Metric whose score is asked
    score,    \* what confidence_score() returned
    score_pc,    \* "idle", "measured", "returned" or "raised"
    \* ---- time interval of a metrics request (_parse_time_interval)
    params,    \* validFrom and expiresAt of the request, as days
    today,    \* datetime.now(timezone.utc).date()
    parsed,    \* the interval returned or the error raised
    interval_pc,    \* "idle", "requested" or "parsed"
    \* ---- check-run statistics (filter_check_runs)
    check_run_stats,    \* the list of CodeCheckRunListItem that filter_check_runs returns
    filter_pc,    \* "idle", "returned" or "raised"
    \* ---- the label filter of mine_check_runs
    labels,    \* the argument labels: the included and the excluded labels
    label_pc,    \* "idle", or "filtered" after _filter_by_pr_labels
    \* ---- label sync of the heater (sync_labels)
    pdb_facts,    \* the rows of github.{done,merged}_pull_request_facts: model, pr_node_id, labels
    sync_tasks,    \* the updates that sync_labels has not started yet
    sync_batch,    \* the updates of the batch that is awaited
    sync_issued,    \* the number of updates that each call of sync_labels created
    sync_codes,    \* the value that each call of sync_labels returned
    sync_pc,    \* "idle", "updating", "gather" or "returned"
    \* ---- latency accounting (measure_db_overhead_and_retry)
    clock,    \* time.time(), in tenths of a second
    start_time,    \* start_time of the wrapped call
    db_elapsed    \* app["db_elapsed"].get()[db_id]

planner_vars == <<requests, plan_pc, simplified, collectors, tasks, team_metrics_res, error>>
miner_vars == <<mdb, df, df_in, cr_pc>>
timeline_vars == <<time_from, time_to, timeline, tl_pc>>
gateway_vars == <<dialect, serialization_lock, connections, db_tasks>>
retry_vars == <<connection, wait_intervals, attempts, slept, retry_pc>>
heater_vars == <<state_db, accounts, account, account_progress_settings, reposets, reposet_i, return_code, failed_accounts, successful_accounts, log, calls, exit_code, heater_pc>>
struct_vars == <<struct_kwargs, struct_data, struct_fields, struct_pc>>
review_vars == <<times, review_time, review_pc>>
score_vars == <<self_metric, score, score_pc>>
interval_vars == <<params, today, parsed, interval_pc>>
filter_vars == <<check_run_stats, filter_pc>>
label_vars == <<labels, label_pc>>
sync_vars == <<pdb_facts, sync_tasks, sync_batch, sync_issued, sync_codes, sync_pc>>
elapsed_vars == <<clock, start_time, db_elapsed>>
vars == <<planner_vars, miner_vars, timeline_vars, gateway_vars, retry_vars, heater_vars, struct_vars, review_vars, score_vars, interval_vars, filter_vars, label_vars, sync_vars, elapsed_vars>>
later_vars == <<gateway_vars, retry_vars, heater_vars, struct_vars, review_vars, score_vars, interval_vars, filter_vars, label_vars, sync_vars, elapsed_vars>>
outside_gateway == <<planner_vars, miner_vars, timeline_vars, retry_vars, heater_vars, struct_vars, review_vars, score_vars, interval_vars, filter_vars, label_vars, sync_vars, elapsed_vars>>
outside_retry == <<planner_vars, miner_vars, timeline_vars, gateway_vars, heater_vars, struct_vars, review_vars, score_vars, interval_vars, filter_vars, label_vars, sync_vars, elapsed_vars>>
outside_heater == <<planner_vars, miner_vars, timeline_vars, gateway_vars, retry_vars, struct_vars, review_vars, score_vars, interval_vars, filter_vars, label_vars, sync_vars, elapsed_vars>>
outside_struct == <<planner_vars, miner_vars, timeline_vars, gateway_vars, retry_vars, heater_vars, review_vars, score_vars, interval_vars, filter_vars, label_vars, sync_vars, elapsed_vars>>
outside_review == <<planner_vars, miner_vars, timeline_vars, gateway_vars, retry_vars, heater_vars, struct_vars, score_vars, interval_vars, filter_vars, label_vars, sync_vars, elapsed_vars>>
outside_score == <<planner_vars, miner_vars, timeline_vars, gateway_vars, retry_vars, heater_vars, struct_vars, review_vars, interval_vars, filter_vars, label_vars, sync_vars, elapsed_vars>>
outside_interval == <<planner_vars, miner_vars, timeline_vars, gateway_vars, retry_vars, heater_vars, struct_vars, review_vars, score_vars, filter_vars, label_vars, sync_vars, elapsed_vars>>
outside_filter == <<planner_vars, miner_vars, timeline_vars, gateway_vars, retry_vars, heater_vars, struct_vars, review_vars, score_vars, interval_vars, label_vars, sync_vars, elapsed_vars>>
outside_label == <<planner_vars, miner_vars, timeline_vars, gateway_vars, retry_vars, heater_vars, struct_vars, review_vars, score_vars, interval_vars, filter_vars, sync_vars, elapsed_vars>>
outside_sync == <<planner_vars, miner_vars, timeline_vars, gateway_vars, retry_vars, heater_vars, struct_vars, review_vars, score_vars, interval_vars, filter_vars, label_vars, elapsed_vars>>
outside_elapsed == <<planner_vars, miner_vars, timeline_vars, gateway_vars, retry_vars, heater_vars, struct_vars, review_vars, score_vars, interval_vars, filter_vars, label_vars, sync_vars>>
outside_retry_elapsed == <<planner_vars, miner_vars, timeline_vars, gateway_vars, heater_vars, struct_vars, review_vars, score_vars, interval_vars, filter_vars, label_vars, sync_vars>>
outside_miner_label == <<planner_vars, timeline_vars, gateway_vars, retry_vars, heater_vars, struct_vars, review_vars, score_vars, interval_vars, filter_vars, sync_vars, elapsed_vars>>

(***************************************************************************)
(* Generic helpers for Python sequences, sets and dicts.                   *)
(***************************************************************************)
Range(s) == {s[i] : i \in DOMAIN s}

\* The distinct elements of s in the order of their first appearance: the key
\* order of a dict filled by setdefault()
RECURSIVE Dedup(_)
Dedup(s) ==
    IF s = <<>> THEN <<>>
    ELSE <<Head(s)>> \o SelectSeq(Dedup(Tail(s)), LAMBDA x : x # Head(s))

\* The concatenation of a sequence of sequences
RECURSIVE Flatten(_)
Flatten(ss) == IF ss = <<>> THEN <<>> ELSE Head(ss) \o Flatten(Tail(ss))

\* Every order in which the elements of the set S can be iterated
Orders(S) == {s \in [1..Cardinality(S) -> S] : Range(s) = S}

\* dict[k] = v
Put(f, k, v) == [x \in (DOMAIN f) \cup {k} |-> IF x = k THEN v ELSE f[x]]

EmptyDict == <<>>

Min(S) == CHOOSE x \in S : \A y \in S : x <= y
Max(S) == CHOOSE x \in S : \A y \in S : x >= y

\* A finite set of integers as an ascending sequence
RECURSIVE Ascending(_)
Ascending(S) == IF S = {} THEN <<>> ELSE <<Min(S)>> \o Ascending(S \ {Min(S)})

\* The rows of a table at the positions I, in table order
Take(rows, I) == LET idx == Ascending(I) IN [k \in DOMAIN idx |-> rows[idx[k]]]

(***************************************************************************)
(* REQUEST PLANNER                                                         *)
(***************************************************************************)

\* ---- bounds of the planner's inputs
MaxRequests == 2
MaxMetrics == 2

\* The metric registries. A metric is triaged by membership only.
pr_metric_calculators == {"pr-lead-time", "pr-review-time"}
release_metric_calculators == {"release-count"}
jira_metric_calculators == {"jira-raised"}
UnknownMetrics == {"whatever"}

\* sorted(): the metric names in ascending string order
MetricOrder == <<"jira-raised", "pr-lead-time", "pr-review-time", "release-count", "whatever">>
MetricNames == Range(MetricOrder)

Families == <<"pr", "release", "jira">>

\* The inputs: intervals are opaque (datetime, datetime) pairs, named 1 and 2
IntervalTuples == {<<1>>, <<2>>, <<1, 2>>}
TeamIds == {5, 7}
\* "team ids are always mapped to same team members"
TeamMembers(t) == IF t = 5 THEN {50, 51} ELSE {70}
TeamDicts ==
    {<<>>} \cup
    UNION {{[i \in 1..Cardinality(S) |-> [id |-> o[i], members |-> TeamMembers(o[i])]]
                : o \in Orders(S)}
            : S \in (SUBSET TeamIds) \ {{}}}

sorted(S) == SelectSeq(MetricOrder, LAMBDA m : m \in S)

MetricLists == {sorted(S) : S \in {M \in SUBSET MetricNames :
                                    Cardinality(M) >= 1 /\ Cardinality(M) <= MaxMetrics}}

TeamMetricsRequest ==
    [metrics : MetricLists, time_intervals : IntervalTuples, teams : TeamDicts]

NoError == [kind |-> "none", pointer |-> ""]

TeamIdsOf(req) == [i \in DOMAIN req.teams |-> req.teams[i].id]

\* ---- _simplify_requests --------------------------------------------------

\* requests_tree.keys(): the interval tuples in insertion order
TreeIntervals(reqs) == Dedup([i \in DOMAIN reqs |-> reqs[i].time_intervals])

\* requests_tree[intervals].keys(): the team ids in insertion order
TreeTeams(reqs, intervals) ==
    Dedup(Flatten([i \in DOMAIN reqs |->
        IF reqs[i].time_intervals = intervals THEN TeamIdsOf(reqs[i]) ELSE <<>>]))

\* requests_tree[intervals][team_id]: the set of metrics
TreeMetricsFirstOnly(reqs, intervals, team_id) ==
    LET hits == {i \in DOMAIN reqs : /\ reqs[i].time_intervals = intervals
                                     /\ team_id \in Range(TeamIdsOf(reqs[i]))}
    IN  IF hits = {} THEN {} ELSE Range(reqs[Min(hits)].metrics)

TreeMetrics(reqs, intervals, team_id) ==
    UNION {Range(reqs[i].metrics) :
            i \in {j \in DOMAIN reqs : /\ reqs[j].time_intervals = intervals
                                       /\ team_id \in Range(TeamIdsOf(reqs[j]))}}

\* teams_members[team_id]: the members given by the last request that names the team
teams_members(reqs, team_id) ==
    LET i == Max({j \in DOMAIN reqs : team_id \in Range(TeamIdsOf(reqs[j]))})
        k == CHOOSE k \in DOMAIN reqs[i].teams : reqs[i].teams[k].id = team_id
    IN  reqs[i].teams[k].members

\* simplified_tree[intervals].keys(): the sorted metric tuples in insertion order
SimplifiedMetrics(reqs, intervals) ==
    LET teams == TreeTeams(reqs, intervals)
    IN  Dedup([j \in DOMAIN teams |-> sorted(TreeMetrics(reqs, intervals, teams[j]))])

\* simplified_tree flattened: one group per (intervals, sorted metrics), with its team set
SimplifiedGroups(reqs) ==
    LET keys == TreeIntervals(reqs)
    IN  Flatten([k \in DOMAIN keys |->
            LET ms == SimplifiedMetrics(reqs, keys[k])
            IN  [j \in DOMAIN ms |->
                    [metrics |-> ms[j],
                     time_intervals |-> keys[k],
                     team_ids |-> {t \in Range(TreeTeams(reqs, keys[k])) :
                                    sorted(TreeMetrics(reqs, keys[k], t)) = ms[j]}]]])

\* The possible results of _simplify_requests: team_ids_ is a set, whose iteration
\* order decides the key order of each teams dict
_simplify_requests(reqs) ==
    LET groups == SimplifiedGroups(reqs)
        orders == UNION {Orders(groups[g].team_ids) : g \in DOMAIN groups}
    IN  {[g \in DOMAIN groups |->
            [metrics |-> groups[g].metrics,
             time_intervals |-> groups[g].time_intervals,
             teams |-> [i \in DOMAIN o[g] |->
                          [id |-> o[g][i], members |-> teams_members(reqs, o[g][i])]]]]
         : o \in {f \in [DOMAIN groups -> orders] :
                    \A g \in DOMAIN groups : f[g] \in Orders(groups[g].team_ids)}}

\* ---- _triage_metrics -----------------------------------------------------
_triage_metrics(metrics) ==
    [pr |-> SelectSeq(metrics, LAMBDA m : m \in pr_metric_calculators),
     release |-> SelectSeq(metrics, LAMBDA m :
                    m \notin pr_metric_calculators /\ m \in release_metric_calculators),
     jira |-> SelectSeq(metrics, LAMBDA m :
                    /\ m \notin pr_metric_calculators
                    /\ m \notin release_metric_calculators
                    /\ m \in jira_metric_calculators),
     unidentified |-> SelectSeq(metrics, LAMBDA m :
                    /\ m \notin pr_metric_calculators
                    /\ m \notin release_metric_calculators
                    /\ m \notin jira_metric_calculators)]

\* ---- the collectors ------------------------------------------------------

\* collector.add_request() over the loop on the simplified requests: the
\* (line request, team_ids) pairs of one family
CollectorRequests(simp, fam) ==
    Flatten([s \in DOMAIN simp |->
        IF _triage_metrics(simp[s].metrics)[fam] = <<>> THEN <<>>
        ELSE <<[metrics |-> _triage_metrics(simp[s].metrics)[fam],
                time_intervals |-> simp[s].time_intervals,
                participants |-> [i \in DOMAIN simp[s].teams |-> simp[s].teams[i].members],
                team_ids |-> TeamIdsOf(simp[s])]>>])

\* The array that a batch calculator returns for the request_i-th request of its
\* batch is opaque: its element at an index path is named by the batch and the path.
ArrayElement(batch, request_i, path) == <<batch, request_i, path>>

\* get_val of the three collectors (indexes are 0-based as in the source)
PR_get_val(calc_res, request_i, team_i, interval_i, metric_i) ==
    ArrayElement(calc_res, request_i, <<0, 0, team_i, interval_i, 0, metric_i>>)

Release_get_val(calc_res, request_i, team_i, interval_i, metric_i) ==
    ArrayElement(calc_res, request_i, <<team_i, 0, interval_i, 0, metric_i>>)

JIRA_get_val(calc_res, request_i, team_i, interval_i, metric_i) ==
    ArrayElement(calc_res, request_i, <<team_i, 0, interval_i, 0, metric_i>>)

get_val(fam, calc_res, request_i, team_i, interval_i, metric_i) ==
    CASE fam = "pr" -> PR_get_val(calc_res, request_i, team_i, interval_i, metric_i)
      [] fam = "release" -> Release_get_val(calc_res, request_i, team_i, interval_i, metric_i)
      [] fam = "jira" -> JIRA_get_val(calc_res, request_i, team_i, interval_i, metric_i)

\* team_metrics_res[int_][metric][team_id] = val, with the two setdefault() calls
SetCell(res, int_, metric, team_id, val) ==
    LET by_metric == IF int_ \in DOMAIN res THEN res[int_] ELSE EmptyDict
        by_team == IF metric \in DOMAIN by_metric THEN by_metric[metric] ELSE EmptyDict
    IN  Put(res, int_, Put(by_metric, metric, Put(by_team, team_id, val)))

\* The assignments of collect() for one request, in the order of its three loops.
\* Every line request holds at least one metric and one team, so that no
\* setdefault() leaves an empty dict behind.
RequestWrites(fam, calc_res, request_i, req) ==
    LET ni == Len(req.time_intervals)
        nm == Len(req.metrics)
        nt == Len(req.team_ids)
    IN  [j \in 1..(ni * nm * nt) |->
            LET interval_i == (j - 1) \div (nm * nt)
                metric_i == ((j - 1) \div nt) % nm
                team_i == (j - 1) % nt
            IN  [int_ |-> req.time_intervals[interval_i + 1],
                 metric |-> req.metrics[metric_i + 1],
                 team_id |-> req.team_ids[team_i + 1],
                 val |-> get_val(fam, calc_res, request_i, team_i, interval_i, metric_i)]]

RECURSIVE ApplyWrites(_, _)
ApplyWrites(res, writes) ==
    IF writes = <<>> THEN res
    ELSE ApplyWrites(SetCell(res, Head(writes).int_, Head(writes).metric,
                             Head(writes).team_id, Head(writes).val),
                     Tail(writes))

\* _BatchCalcResultCollector.collect
collect(fam, reqs, batch_calc_results, res) ==
    ApplyWrites(res, Flatten([k \in DOMAIN reqs |->
                        RequestWrites(fam, batch_calc_results, k - 1, reqs[k])]))

\* The three `if ..._requests:` blocks that issue the batch calls
IssuedTasksAlways(colls) == Families

IssuedTasks(colls) == SelectSeq(Families, LAMBDA fam : colls[fam] # <<>>)

\* The three `if ..._requests:` blocks that scatter the gathered results
CollectResultsNoPop(colls, calc_results) ==
    LET r1 == IF colls.pr # <<>> THEN collect("pr", colls.pr, calc_results[1], EmptyDict)
              ELSE EmptyDict
        r2 == IF colls.release # <<>>
              THEN collect("release", colls.release, calc_results[1], r1) ELSE r1
    IN  IF colls.jira # <<>> THEN collect("jira", colls.jira, calc_results[1], r2) ELSE r2

CollectResults(colls, calc_results) ==
    LET r1 == IF colls.pr # <<>> THEN collect("pr", colls.pr, Head(calc_results), EmptyDict)
              ELSE EmptyDict
        c1 == IF colls.pr # <<>> THEN Tail(calc_results) ELSE calc_results
        r2 == IF colls.release # <<>>
              THEN collect("release", colls.release, Head(c1), r1) ELSE r1
        c2 == IF colls.release # <<>> THEN Tail(c1) ELSE c1
    IN  IF colls.jira # <<>> THEN collect("jira", colls.jira, c2[1], r2) ELSE r2

NoCollectors == [pr |-> <<>>, release |-> <<>>, jira |-> <<>>]

\* ---- the operations ------------------------------------------------------

\* The caller composes the list of requests
AddRequest ==
    /\ plan_pc = "building"
    /\ Len(requests) < MaxRequests
    /\ \E req \in TeamMetricsRequest : requests' = Append(requests, req)
    /\ UNCHANGED <<plan_pc, simplified, collectors, tasks, team_metrics_res, error>>
    /\ UNCHANGED <<miner_vars, timeline_vars, later_vars>>

\* calculate_team_metrics up to `await gather(*tasks)`: simplification, the triage
\* loop (which raises on the first request with an unidentified metric) and the
\* batch calls
Calculate ==
    /\ plan_pc = "building"
    /\ \E simp \in _simplify_requests(requests) :
        /\ simplified' = simp
        /\ IF \E s \in DOMAIN simp : _triage_metrics(simp[s].metrics).unidentified # <<>>
           THEN /\ plan_pc' = "failed"
                /\ error' = [kind |-> "InvalidRequestError", pointer |-> ".metrics"]
                /\ UNCHANGED <<collectors, tasks>>
           ELSE /\ collectors' = [fam \in Range(Families) |-> CollectorRequests(simp, fam)]
                /\ tasks' = IssuedTasks(collectors')
                /\ plan_pc' = "awaiting"
                /\ UNCHANGED error
    /\ UNCHANGED <<requests, team_metrics_res>>
    /\ UNCHANGED <<miner_vars, timeline_vars, later_vars>>

\* gather() returns the result of every batch, in the order of the tasks, and the
\* collectors scatter them
Gather ==
    /\ plan_pc = "awaiting"
    /\ team_metrics_res' = CollectResults(collectors, tasks)
    /\ plan_pc' = "done"
    /\ UNCHANGED <<requests, simplified, collectors, tasks, error>>
    /\ UNCHANGED <<miner_vars, timeline_vars, later_vars>>

\* a batch fails: gather() raises and nothing is returned
GatherFails ==
    /\ plan_pc = "awaiting"
    /\ tasks # <<>>
    /\ plan_pc' = "failed"
    /\ error' = [kind |-> "mining", pointer |-> ""]
    /\ UNCHANGED <<requests, simplified, collectors, tasks, team_metrics_res>>
    /\ UNCHANGED <<miner_vars, timeline_vars, later_vars>>

\* Every component starts idle
Init ==
    /\ requests = <<>>
    /\ plan_pc = "building"
    /\ simplified = <<>>
    /\ collectors = NoCollectors
    /\ tasks = <<>>
    /\ team_metrics_res = EmptyDict
    /\ error = NoError
    /\ mdb = <<>>
    /\ df = <<>>
    /\ df_in = <<>>
    /\ cr_pc = "stored"
    /\ time_from = 0
    /\ time_to = 0
    /\ timeline = <<>>
    /\ tl_pc = "idle"
    /\ dialect = "none"
    /\ serialization_lock = "None"
    /\ connections = <<>>
    /\ db_tasks = <<>>
    /\ connection = [class |-> "none", in_transaction |-> FALSE]
    /\ wait_intervals = <<>>
    /\ attempts = <<>>
    /\ slept = <<>>
    /\ retry_pc = "idle"
    /\ state_db = <<>>
    /\ accounts = <<>>
    /\ account = 0
    /\ account_progress_settings = <<>>
    /\ reposets = <<>>
    /\ reposet_i = 0
    /\ return_code = 0
    /\ failed_accounts = {}
    /\ successful_accounts = {}
    /\ log = <<>>
    /\ calls = <<>>
    /\ exit_code = "none"
    /\ heater_pc = "idle"
    /\ struct_kwargs = <<>>
    /\ struct_data = <<>>
    /\ struct_fields = <<>>
    /\ struct_pc = "idle"
    /\ times = <<>>
    /\ review_time = <<>>
    /\ review_pc = "idle"
    /\ self_metric = <<>>
    /\ score = 0
    /\ score_pc = "idle"
    /\ params = <<>>
    /\ today = 0
    /\ parsed = <<>>
    /\ interval_pc = "idle"
    /\ check_run_stats = <<>>
    /\ filter_pc = "idle"
    /\ labels = [include |-> {}, exclude |-> {}]
    /\ label_pc = "idle"
    /\ pdb_facts = <<>>
    /\ sync_tasks = <<>>
    /\ sync_batch = <<>>
    /\ sync_issued = <<>>
    /\ sync_codes = <<>>
    /\ sync_pc = "idle"
    /\ clock = 0
    /\ start_time = 0
    /\ db_elapsed = 0

NextPlanner ==
    \/ AddRequest
    \/ Calculate
    \/ Gather
    \/ GatherFails

SpecPlanner == Init /\ [][NextPlanner]_vars

(***************************************************************************)
(* Properties of the request planner                                       *)
(***************************************************************************)

\* cells_out: the (interval, metric, team) cells that a list of requests covers
Cells(reqs) ==
    UNION {{<<reqs[r].time_intervals[a], reqs[r].metrics[b], reqs[r].teams[c].id>> :
                a \in DOMAIN reqs[r].time_intervals,
                b \in DOMAIN reqs[r].metrics,
                c \in DOMAIN reqs[r].teams}
            : r \in DOMAIN reqs}

ResultCells(res) ==
    UNION {UNION {{<<i, m, t>> : t \in DOMAIN res[i][m]} : m \in DOMAIN res[i]}
            : i \in DOMAIN res}

KnownMetrics ==
    pr_metric_calculators \cup release_metric_calculators \cup jira_metric_calculators

FamilyOf(m) ==
    IF m \in pr_metric_calculators THEN "pr"
    ELSE IF m \in release_metric_calculators THEN "release" ELSE "jira"

FamilyMetrics(fam) ==
    CASE fam = "pr" -> pr_metric_calculators
      [] fam = "release" -> release_metric_calculators
      [] fam = "jira" -> jira_metric_calculators

Called == plan_pc # "building"

\* C1: simplification is lossless: the cells covered by the simplified requests are
\* exactly the cells covered by the requests that were given.
C1_SimplificationLossless == Called => Cells(simplified) = Cells(requests)

\* two requests with different metrics were merged into one simplified request
C1_Witness ==
    /\ Called
    /\ Len(requests) = 2
    /\ requests[1].metrics # requests[2].metrics
    /\ requests[1].teams # <<>>
    /\ Len(simplified) = 1
    /\ Len(simplified[1].metrics) > Len(requests[1].metrics)

\* C2 as stated: an unknown metric in any request fails the whole call with an
\* InvalidRequestError pointing at .metrics; no batch is issued, nothing is returned.
C2_UnknownMetricFailsCall ==
    (/\ Called
     /\ \E r \in DOMAIN requests : Range(requests[r].metrics) \ KnownMetrics # {})
    => (/\ plan_pc = "failed"
        /\ error = [kind |-> "InvalidRequestError", pointer |-> ".metrics"]
        /\ tasks = <<>>
        /\ team_metrics_res = EmptyDict)

\* The request index inside its family's batch of the s-th simplified request
BatchIndex(fam, s) ==
    Cardinality({q \in 1..(s - 1) :
                    Range(simplified[q].metrics) \cap FamilyMetrics(fam) # {}})

\* The metrics of one family in a simplified request, in request order
MetricsOfFamily(req, fam) ==
    SelectSeq(req.metrics, LAMBDA m : m \in KnownMetrics /\ FamilyOf(m) = fam)

\* C3: the result holds a value for exactly the requested cells, and the value of a
\* cell is the element of its family's array at (team, interval, metric) of a
\* simplified request that contains the cell: PR [0][0][team][interval][0][metric],
\* release and JIRA [team][0][interval][0][metric].
C3_ResultLayout ==
    plan_pc = "done" =>
        /\ ResultCells(team_metrics_res) = Cells(requests)
        /\ \A cell \in ResultCells(team_metrics_res) :
            LET fam == FamilyOf(cell[2]) IN
            \E s \in DOMAIN simplified :
                LET ms == MetricsOfFamily(simplified[s], fam) IN
                \E ii \in DOMAIN simplified[s].time_intervals, mi \in DOMAIN ms,
                   ti \in DOMAIN simplified[s].teams :
                    /\ simplified[s].time_intervals[ii] = cell[1]
                    /\ ms[mi] = cell[2]
                    /\ simplified[s].teams[ti].id = cell[3]
                    /\ team_metrics_res[cell[1]][cell[2]][cell[3]] =
                        <<fam, BatchIndex(fam, s),
                          IF fam = "pr" THEN <<0, 0, ti - 1, ii - 1, 0, mi - 1>>
                          ELSE <<ti - 1, 0, ii - 1, 0, mi - 1>>>>

\* a result with the three families, two intervals and two teams
C3_Witness ==
    /\ plan_pc = "done"
    /\ tasks = Families
    /\ \E cell \in ResultCells(team_metrics_res) : cell[1] = 2 /\ cell[3] = 7
    /\ \E cell \in ResultCells(team_metrics_res) : cell[1] = 1 /\ cell[3] = 5

BatchCalls(fam) == Cardinality({i \in DOMAIN tasks : tasks[i] = fam})

OverlappingPRRequests ==
    /\ Len(requests) = 2
    /\ requests[1].time_intervals = requests[2].time_intervals
    /\ Range(TeamIdsOf(requests[1])) \cap Range(TeamIdsOf(requests[2])) # {}
    /\ Range(requests[1].metrics) \cap Range(requests[2].metrics)
            \cap pr_metric_calculators # {}

\* C4: at most one batched call per family, none for a family of which no metric is
\* requested, and exactly one PR batch for two requests with the same intervals and
\* overlapping PR metrics for the same team.
C4_OneBatchPerFamily ==
    /\ \A fam \in Range(Families) :
        /\ BatchCalls(fam) <= 1
        /\ (\A r \in DOMAIN requests : Range(requests[r].metrics) \cap FamilyMetrics(fam) = {})
            => BatchCalls(fam) = 0
    /\ (plan_pc \in {"awaiting", "done"} /\ OverlappingPRRequests) => BatchCalls("pr") = 1

C4_Witness ==
    /\ plan_pc = "awaiting"
    /\ OverlappingPRRequests
    /\ requests[1].metrics # requests[2].metrics
    /\ tasks = <<"pr">>

(***************************************************************************)
(* CHECK-RUN MINER                                                         *)
(***************************************************************************)

\* Timestamps of the miner are whole hours; NaT is the missing timestamp and None
\* the missing node id.
NaT == -1
None == "None"

\* timedelta(hours=n)
timedelta_hours(n) == n

\* The arguments time_from and time_to of mine_check_runs and datetime.now() at the call
Call == [time_from |-> 1, time_to |-> 4, now |-> 20]

\* The pull requests of the metadata store: author, lifetime (closed_at is NaT while
\* the PR is open) and the number of commits.
NodePullRequest ==
    [A |-> [author |-> "x", created_at |-> 1, closed_at |-> 3],
     B |-> [author |-> "x", created_at |-> 0, closed_at |-> NaT],
     C |-> [author |-> "y", created_at |-> 0, closed_at |-> 1],
     D |-> [author |-> "x", created_at |-> 2, closed_at |-> 6]]

NodePullRequestCommit == [A |-> 2, B |-> 2, C |-> 1, D |-> 1]

\* Node ids in the byte order that np.unique and np.argsort put them in
PullRequestOrder == <<"A", "B", "C", "D">>
CheckRunOrder ==
    <<"r01", "r02", "r03", "r04", "r05", "r06", "r07", "r08", "r09", "r10", "r11", "r12", "r13">>

\* The concatenations suite id + url of _merge_status_contexts in byte order
SeedOrder ==
    <<<<"S1", "u1">>, <<"S1", "u2">>, <<"S", "u1">>, <<"S", "u2">>, <<"T", "u1">>, <<"T", "u2">>>>

\* The positions of a table
Rows(t) == DOMAIN t

\* One row of the CheckRun view: a check run joined with one pull request of its commit
CheckRun(id, run, pr) ==
    [check_run_node_id |-> id,
     check_suite_node_id |-> run.check_suite_node_id,
     pull_request_node_id |-> pr,
     author_user |-> run.author_user,
     name |-> run.name,
     url |-> run.url,
     status |-> run.status,
     conclusion |-> run.conclusion,
     check_suite_conclusion |-> run.check_suite_conclusion,
     check_suite_status |-> run.check_suite_status,
     commit_node_id |-> run.commit_node_id,
     repository_full_name |-> run.repository_full_name,
     started_at |-> run.started_at,
     completed_at |-> run.completed_at]

\* The rows of the view for one check run whose commit belongs to the PRs prs
CheckRunRows(id, run, prs) ==
    IF prs = {}
    THEN <<CheckRun(id, run, None)>>
    ELSE LET ordered == SelectSeq(PullRequestOrder, LAMBDA p : p \in prs)
         IN  [k \in DOMAIN ordered |-> CheckRun(id, run, ordered[k])]

CheckRunIds(t) == {t[i].check_run_node_id : i \in Rows(t)}

\* The queries of mine_check_runs: the runs started inside [time_from, time_to], then
\* the runs outside of it that are mapped to a PR of those.
read_check_runs(db) ==
    LET inside(r) == Call.time_from <= r.started_at /\ r.started_at <= Call.time_to
        main == SelectSeq(db, inside)
        pr_node_ids == {main[i].pull_request_node_id : i \in Rows(main)} \ {None}
        mentioned(r) == r.pull_request_node_id \in pr_node_ids
        before(r) == mentioned(r) /\ r.started_at < Call.time_from
        after(r) == mentioned(r) /\ r.started_at >= Call.time_to
    IN  main \o SelectSeq(db, before) \o SelectSeq(db, after)

\* pr_lifetimes with closed_at.fillna(datetime.now())
pr_lifetimes(pr) ==
    [created_at |-> NodePullRequest[pr].created_at,
     closed_at |-> IF NodePullRequest[pr].closed_at = NaT
                   THEN Call.now ELSE NodePullRequest[pr].closed_at]

\* A mutation: every row counts from its own started_at
_calculate_check_suite_started_own(t) ==
    [i \in Rows(t) |-> [t[i] EXCEPT !.check_suite_started = t[i].started_at]]

\* The earliest started_at of the rows of each row's check suite; min() skips NaT
_calculate_check_suite_started(t) ==
    [i \in Rows(t) |->
        LET starts == {t[j].started_at : j \in {k \in Rows(t) :
                            t[k].check_suite_node_id = t[i].check_suite_node_id}} \ {NaT}
        IN  [t[i] EXCEPT !.check_suite_started = IF starts = {} THEN NaT ELSE Min(starts)]]

\* df.join(pr_lifetimes) with the new columns
join_pr_lifetimes(t) ==
    [i \in Rows(t) |->
        LET pr == t[i].pull_request_node_id
        IN  t[i] @@ [pull_request_started |-> IF pr = None THEN NaT
                                              ELSE pr_lifetimes(pr).created_at,
                     pull_request_closed |-> IF pr = None THEN NaT
                                             ELSE pr_lifetimes(pr).closed_at,
                     check_suite_started |-> NaT]]

\* Series.between(left, right), false when a side is missing
between(x, left, right) ==
    /\ x # NaT /\ left # NaT /\ right # NaT
    /\ left <= x /\ x <= right

\* The check suite did not start while the PR was open (one hour of grace)
outside_pr_lifetime(r) ==
    ~between(r.check_suite_started, r.pull_request_started,
             IF r.pull_request_closed = NaT THEN NaT
             ELSE r.pull_request_closed + timedelta_hours(1))

\* df.drop_duplicates([check_run_node_id, pull_request_node_id]): the first row of each pair
drop_duplicates(t) ==
    Take(t, {i \in Rows(t) : \A j \in 1..(i - 1) :
                \/ t[j].check_run_node_id # t[i].check_run_node_id
                \/ t[j].pull_request_node_id # t[i].pull_request_node_id})

\* The first lap: rows whose suite started outside the lifetime of their PR lose the PR
reject_by_pr_lifetimes(t) ==
    LET joined == _calculate_check_suite_started(join_pr_lifetimes(t))
    IN  drop_duplicates([i \in Rows(joined) |->
            IF outside_pr_lifetime(joined[i])
            THEN [joined[i] EXCEPT !.pull_request_node_id = None]
            ELSE joined[i]])

\* The rows of a check run
RowsOf(t, id) == {i \in Rows(t) : t[i].check_run_node_id = id}

\* The check runs with more than one row
ambiguous_check_runs(t) == {id \in CheckRunIds(t) : Cardinality(RowsOf(t, id)) > 1}

\* Step 1 of the second lap: the rows whose PR was created by the author of the commit
passed_authors(t, id) ==
    {i \in RowsOf(t, id) :
        /\ t[i].pull_request_node_id # None
        /\ NodePullRequest[t[i].pull_request_node_id].author = t[i].author_user}

\* A mutation: the earliest created PR wins whatever its number of commits
passed_commit_counts_earliest(t, cands) ==
    {i \in cands : \A j \in cands : t[i].pull_request_started <= t[j].pull_request_started}

\* Step 2: idxmin() of the number of commits over the rows sorted by created_at; the
\* sort is not stable, so any of the rows that tie in both may come first.
passed_commit_counts(t, cands) ==
    LET count(i) == NodePullRequestCommit[t[i].pull_request_node_id]
        least == {i \in cands : \A j \in cands : count(i) <= count(j)}
    IN  {i \in least : \A j \in least : t[i].pull_request_started <= t[j].pull_request_started}

\* The rows that take(first_encounters) may keep for a check run: the row that passed
\* both steps with its PR, otherwise any row of the run without a PR.
first_encounters(t, id) ==
    IF id \notin ambiguous_check_runs(t)
    THEN {t[i] : i \in RowsOf(t, id)}
    ELSE IF passed_authors(t, id) = {}
    THEN {[t[i] EXCEPT !.pull_request_node_id = None] : i \in RowsOf(t, id)}
    ELSE {t[i] : i \in passed_commit_counts(t, passed_authors(t, id))}

\* A mutation: the second lap is skipped
disambiguate_skipped(t) == {t}

\* The second lap: the possible tables, one row per check run in the order of the ids
disambiguate(t) ==
    IF ambiguous_check_runs(t) = {}
    THEN {t}
    ELSE LET ids == SelectSeq(CheckRunOrder, LAMBDA id : id \in CheckRunIds(t))
             kept == UNION {first_encounters(t, id) : id \in CheckRunIds(t)}
         IN  {out \in [DOMAIN ids -> kept] :
                \A k \in DOMAIN ids : out[k] \in first_encounters(t, ids[k])}

\* The positions of the rows without completed_at, in table order
no_finish(t) == Ascending({i \in Rows(t) : t[i].completed_at = NaT})

\* np.char.add(no_finish_parents, no_finish_urls) of a row
seed(r) == <<r.check_suite_node_id, r.url>>

\* The positions inside no_finish of the rows of one seed
seed_members(t, s) == {k \in DOMAIN no_finish(t) : seed(t[no_finish(t)[k]]) = s}

\* The seeds of more than one row, in the order of np.unique
captured(t) == SelectSeq(SeedOrder, LAMBDA s : Cardinality(seed_members(t, s)) > 1)

\* np.minimum(mins, suite_mins) of a captured group
group_min(t, s) ==
    LET nf == no_finish(t)
    IN  Min({t[nf[k]].started_at : k \in seed_members(t, s)}
            \cup {t[nf[k]].check_suite_started : k \in seed_members(t, s)})

group_max(t, s) ==
    LET nf == no_finish(t)
    IN  Max({t[nf[k]].started_at : k \in seed_members(t, s)})

\* np.argmax(np.equal(timestamps, maxs, where=masks)): np.equal leaves its output
\* uninitialized outside of the group, so the first true element is the first latest
\* row of the group or any row of another group in front of it.
group_argmaxs(t, s) ==
    LET nf == no_finish(t)
        latest == Min({k \in seed_members(t, s) : t[nf[k]].started_at = group_max(t, s)})
    IN  {latest} \cup {k \in 1..(latest - 1) : k \notin seed_members(t, s)}

\* pd.Series(values) assigned through df.loc[first_no_finish]: pandas aligns the
\* series, indexed by the number of the group, with the labels of the rows, so the
\* row labelled L receives the value of the group number L, or NaT without such group.
align_series(values, label) == IF label + 1 \in DOMAIN values THEN values[label + 1] ELSE NaT

\* The possible tables after _merge_status_contexts on a table with an unfinished row
_merge_status_contexts(t) ==
    LET nf == no_finish(t)
        groups == captured(t)
        first(g) == nf[Min(seed_members(t, groups[g]))]
        mins == [g \in DOMAIN groups |-> group_min(t, groups[g])]
        maxs == [g \in DOMAIN groups |-> group_max(t, groups[g])]
        secondary == {nf[k] : k \in UNION {seed_members(t, groups[g]) : g \in DOMAIN groups}}
                        \ {first(g) : g \in DOMAIN groups}
        merged(argmaxs) ==
            [i \in Rows(t) |->
                IF \E g \in DOMAIN groups : first(g) = i
                THEN LET group == CHOOSE h \in DOMAIN groups : first(h) = i
                     IN  [t[i] EXCEPT !.started_at = align_series(mins, i - 1),
                                      !.completed_at = align_series(maxs, i - 1),
                                      !.status = t[nf[argmaxs[group]]].status]
                ELSE t[i]]
    IN  {Take(merged(argmaxs), Rows(t) \ secondary) :
            argmaxs \in {a \in [DOMAIN groups -> DOMAIN nf] :
                            \A g \in DOMAIN groups : a[g] \in group_argmaxs(t, groups[g])}}

\* timestamps[0] raises IndexError when the table has rows and none lacks completed_at
merge_raises(t) == t # <<>> /\ no_finish(t) = <<>>

\* str() of a natural number
DecimalDigits == <<"0", "1", "2", "3", "4", "5", "6", "7", "8", "9">>
RECURSIVE str(_)
str(n) == IF n < 10 THEN DecimalDigits[n + 1]
          ELSE str(n \div 10) \o DecimalDigits[(n % 10) + 1]

\* df.sort_values(started_at): the possible orders of the positions, NaT last; the
\* sort is not stable, so rows with equal started_at come in any order.
RECURSIVE sort_values(_, _)
sort_values(t, I) ==
    IF I = {} THEN {<<>>}
    ELSE LET before(i, j) == t[j].started_at = NaT
                             \/ (t[i].started_at # NaT /\ t[i].started_at <= t[j].started_at)
             least == {i \in I : \A j \in I : before(i, j)}
         IN  UNION {{<<i>> \o rest : rest \in sort_values(t, I \ {i})} : i \in least}

\* groupby([check_suite_node_id, name]).cumcount() of the row at position k
cumcount(t, k) ==
    Cardinality({j \in 1..(k - 1) : /\ t[j].check_suite_node_id = t[k].check_suite_node_id
                                    /\ t[j].name = t[k].name})

\* np.char.add(check_suite_node_ids, dupe_index)
dupe_suite_id(suite, index) == suite \o str(index)

\* A mutation: the conclusion listed first wins
override_conclusion_first_wins(t, k) ==
    LET successful == t[k].check_suite_conclusion \in {"SUCCESS", "NEUTRAL"}
        has(c) == \E j \in Rows(t) :
                    /\ t[j].check_suite_node_id = t[k].check_suite_node_id
                    /\ t[j].conclusion = c
    IN  IF ~successful THEN t[k].check_suite_conclusion
        ELSE IF has("TIMED_OUT") THEN "TIMED_OUT"
        ELSE IF has("CANCELLED") THEN "CANCELLED"
        ELSE IF has("FAILURE") THEN "FAILURE"
        ELSE t[k].check_suite_conclusion

\* The conclusion of a successful suite after the override by the conclusions of its runs
override_conclusion(t, k) ==
    LET successful == t[k].check_suite_conclusion \in {"SUCCESS", "NEUTRAL"}
        has(c) == \E j \in Rows(t) :
                    /\ t[j].check_suite_node_id = t[k].check_suite_node_id
                    /\ t[j].conclusion = c
    IN  IF ~successful THEN t[k].check_suite_conclusion
        ELSE IF has("FAILURE") THEN "FAILURE"
        ELSE IF has("CANCELLED") THEN "CANCELLED"
        ELSE IF has("TIMED_OUT") THEN "TIMED_OUT"
        ELSE t[k].check_suite_conclusion

\* The possible tables after _split_duplicate_check_runs
_split_duplicate_check_runs(t) ==
    {LET sorted_df == [k \in DOMAIN order |-> t[order[k]]]
         split == [k \in Rows(sorted_df) |->
                    [sorted_df[k] EXCEPT !.check_suite_node_id =
                        dupe_suite_id(sorted_df[k].check_suite_node_id,
                                      cumcount(sorted_df, k))]]
         overridden == [k \in Rows(split) |->
                    [split[k] EXCEPT !.check_suite_conclusion = override_conclusion(split, k)]]
     IN  IF overridden # split THEN _calculate_check_suite_started(overridden) ELSE split
     : order \in sort_values(t, Rows(t))}

\* A mutation: completed_at is left as it is
clamp_completed_at_none(completed_at, started_at) == completed_at

\* np.maximum(completed_at, started_at); NaT propagates
clamp_completed_at(completed_at, started_at) ==
    IF completed_at = NaT \/ started_at = NaT THEN NaT
    ELSE Max({completed_at, started_at})

\* The last statements of mine_check_runs
finalize(t) ==
    [i \in Rows(t) |->
        LET skipped == IF t[i].conclusion = "NEUTRAL"
                       THEN [t[i] EXCEPT !.completed_at = NaT] ELSE t[i]
            synced == IF skipped.pull_request_node_id = None
                      THEN [skipped EXCEPT !.pull_request_started = NaT,
                                           !.pull_request_closed = NaT]
                      ELSE skipped
        IN  [synced EXCEPT !.completed_at =
                clamp_completed_at(synced.completed_at, synced.started_at)]]

\* The bounds of the stored check runs of each specification
MaxCommitRuns == 2
MaxPRsPerRun == 2
MaxStatusContexts == 3
MaxTimedRuns == 3
MaxReruns == 12
MaxConcludedRuns == 3
MaxWindowRuns == 2

\* A check run without a status context
PlainRun ==
    [check_suite_node_id |-> "S", author_user |-> "x", name |-> "build", url |-> "u1",
     status |-> "COMPLETED", conclusion |-> "SUCCESS", check_suite_conclusion |-> "SUCCESS",
     check_suite_status |-> "COMPLETED", commit_node_id |-> "c1",
     repository_full_name |-> "src-d/go-git",
     started_at |-> Call.time_from, completed_at |-> NaT]

\* Check runs of commits that belong to several pull requests
CommitRuns ==
    {[PlainRun EXCEPT !.check_suite_node_id = suite, !.author_user = author,
                      !.started_at = started] :
        suite \in {"S", "T"}, author \in {"x", "y"}, started \in {2, 4, 5}}

PullRequestSets ==
    {prs \in SUBSET DOMAIN NodePullRequest : Cardinality(prs) <= MaxPRsPerRun}

\* Status contexts: a pending and a final event of the same url make one check
StatusContexts ==
    {[PlainRun EXCEPT !.check_suite_node_id = suite, !.status = status,
                      !.started_at = started, !.completed_at = completed] :
        suite \in {"S", "T"}, status \in {"PENDING", "SUCCESS"},
        started \in {1, 2, 3}, completed \in {NaT, 3}}

\* Check runs with every relation between started_at and completed_at
TimedRuns ==
    {[PlainRun EXCEPT !.url = url, !.conclusion = conclusion,
                      !.started_at = started, !.completed_at = completed] :
        url \in {"u1", "u2"}, conclusion \in {"NEUTRAL", "SUCCESS"},
        started \in {2, 3}, completed \in {NaT, 1, 3}}

\* The n-th of the re-runs of one job, the newest first; the runs of S1 are unfinished
Reruns(n) ==
    {[PlainRun EXCEPT !.check_suite_node_id = suite,
                      !.started_at = Len(CheckRunOrder) - n,
                      !.completed_at = IF suite = "S1" THEN NaT
                                       ELSE Len(CheckRunOrder) - n + 1] :
        suite \in {"S", "S1"}}

\* The conclusion that each check suite was stored with
CheckSuiteConclusion == [S |-> "SUCCESS", T |-> "NEUTRAL", S1 |-> "STALE"]

\* The n-th of the check runs of suites with every conclusion, finished or not
ConcludedRuns(n) ==
    {[PlainRun EXCEPT !.check_suite_node_id = suite, !.name = name,
                      !.conclusion = conclusion,
                      !.check_suite_conclusion = CheckSuiteConclusion[suite],
                      !.started_at = Call.time_from + n - 1,
                      !.completed_at = completed] :
        suite \in DOMAIN CheckSuiteConclusion, name \in {"build", "test"},
        conclusion \in {"SUCCESS", "TIMED_OUT", "CANCELLED", "FAILURE"},
        completed \in {NaT, Call.time_from + n}}

\* The commit that each check suite belongs to
CheckSuiteCommit == [S |-> "c1", T |-> "c2"]

\* Check runs launched before, inside and after the window, of suites that are
\* completed or still queued, finished or not
WindowRuns ==
    {[PlainRun EXCEPT !.check_suite_node_id = suite,
                      !.commit_node_id = CheckSuiteCommit[suite],
                      !.check_suite_status = status, !.conclusion = conclusion,
                      !.started_at = started,
                      !.completed_at = IF finished THEN started + 1 ELSE NaT] :
        suite \in DOMAIN CheckSuiteCommit, status \in {"COMPLETED", "QUEUED"},
        conclusion \in {"SUCCESS", "FAILURE", "NEUTRAL"},
        started \in {Call.time_from - 1, Call.time_from + 1, Call.time_to + 1},
        finished \in BOOLEAN}

\* The number of check runs in the store
Stored == Cardinality(CheckRunIds(mdb))

\* The metadata store receives one more check run
Store(run, prs) ==
    /\ cr_pc = "stored"
    /\ mdb' = mdb \o CheckRunRows(CheckRunOrder[Stored + 1], run, prs)
    /\ UNCHANGED <<df, df_in, cr_pc, planner_vars, timeline_vars, later_vars>>

StoreCommitRun ==
    /\ Stored < MaxCommitRuns
    /\ \E run \in CommitRuns, prs \in PullRequestSets : Store(run, prs)

StoreStatusContext ==
    /\ Stored < MaxStatusContexts
    /\ \E run \in StatusContexts : Store(run, {})

StoreTimedRun ==
    /\ Stored < MaxTimedRuns
    /\ \E run \in TimedRuns : Store(run, {})

StoreRerun ==
    /\ Stored < MaxReruns
    /\ \E run \in Reruns(Stored + 1) : Store(run, {"B"})

StoreWindowRun ==
    /\ Stored < MaxWindowRuns
    /\ \E run \in WindowRuns, prs \in {{}, {"B"}} : Store(run, prs)

StoreConcludedRun ==
    /\ Stored < MaxConcludedRuns
    /\ \E run \in ConcludedRuns(Stored + 1) : Store(run, {})

\* mine_check_runs, lines 72-128: the queries
ReadCheckRuns ==
    /\ cr_pc = "stored"
    /\ df' = read_check_runs(mdb)
    /\ df_in' = <<>>
    /\ cr_pc' = "read"
    /\ UNCHANGED <<mdb, planner_vars, timeline_vars, later_vars>>

\* mine_check_runs, lines 130-200: the first lap
RejectByLifetimes ==
    /\ cr_pc = "read"
    /\ df' = reject_by_pr_lifetimes(df)
    /\ df_in' = df
    /\ cr_pc' = "rejected"
    /\ UNCHANGED <<mdb, planner_vars, timeline_vars, later_vars>>

\* mine_check_runs, lines 202-257: the second lap
Disambiguate ==
    /\ cr_pc = "rejected"
    /\ df' \in disambiguate(df)
    /\ df_in' = df
    /\ cr_pc' = "disambiguated"
    /\ UNCHANGED <<mdb, planner_vars, timeline_vars, later_vars>>

\* mine_check_runs, line 264, after the label filter if there is one; the exception of
\* _merge_status_contexts ends the call
MergeStatusContexts ==
    /\ cr_pc = "disambiguated"
    /\ (labels.include # {} \/ labels.exclude # {}) => label_pc = "filtered"
    /\ df_in' = df
    /\ IF merge_raises(df)
       THEN df' = df /\ cr_pc' = "failed"
       ELSE IF df = <<>>
       THEN df' = df /\ cr_pc' = "merged"
       ELSE df' \in _merge_status_contexts(df) /\ cr_pc' = "merged"
    /\ UNCHANGED <<mdb, planner_vars, timeline_vars, later_vars>>

\* mine_check_runs, line 268
SplitDuplicateCheckRuns ==
    /\ cr_pc = "merged"
    /\ df_in' = df
    /\ df' \in (IF df = <<>> THEN {df} ELSE _split_duplicate_check_runs(df))
    /\ cr_pc' = "split"
    /\ UNCHANGED <<mdb, planner_vars, timeline_vars, later_vars>>

\* mine_check_runs, lines 270-289
Finalize ==
    /\ cr_pc = "split"
    /\ df_in' = df
    /\ df' = finalize(df)
    /\ cr_pc' = "done"
    /\ UNCHANGED <<mdb, planner_vars, timeline_vars, later_vars>>

MineCheckRuns ==
    \/ ReadCheckRuns
    \/ RejectByLifetimes
    \/ Disambiguate
    \/ MergeStatusContexts
    \/ SplitDuplicateCheckRuns
    \/ Finalize

NextAttribution == StoreCommitRun \/ MineCheckRuns
SpecAttribution == Init /\ [][NextAttribution]_vars

NextStatusContexts == StoreStatusContext \/ MineCheckRuns
SpecStatusContexts == Init /\ [][NextStatusContexts]_vars

NextTimedRuns == StoreTimedRun \/ MineCheckRuns
SpecTimedRuns == Init /\ [][NextTimedRuns]_vars

NextReruns == StoreRerun \/ MineCheckRuns
SpecReruns == Init /\ [][NextReruns]_vars

NextConclusions == StoreConcludedRun \/ MineCheckRuns
SpecConclusions == Init /\ [][NextConclusions]_vars


(***************************************************************************)
(* Properties of the check-run miner                                       *)
(***************************************************************************)

\* The row of a check run in a table that holds it
RowOf(t, id) == t[CHOOSE i \in Rows(t) : t[i].check_run_node_id = id]

\* The table was returned by mine_check_runs
Mined == cr_pc = "done"

PullRequestsOf(t, id) == {t[i].pull_request_node_id : i \in RowsOf(t, id)} \ {None}

\* C6: from the second lap on, no two rows of the table share check_run_node_id, and
\* the second lap keeps every check run that the queries returned.
C6_EachCheckRunOnce ==
    /\ cr_pc \in {"disambiguated", "merged", "split", "done", "failed"}
        => \A i, j \in Rows(df) :
                df[i].check_run_node_id = df[j].check_run_node_id => i = j
    /\ cr_pc = "disambiguated" => CheckRunIds(df) = CheckRunIds(read_check_runs(mdb))

\* A returned table with a check run of a commit of two pull requests, attributed to
\* one of them, and another check run that was read twice
C6_Witness ==
    /\ Mined
    /\ \E i \in Rows(df) :
        /\ Cardinality(PullRequestsOf(mdb, df[i].check_run_node_id)) = 2
        /\ df[i].pull_request_node_id # None
    /\ \E i, j \in Rows(read_check_runs(mdb)) :
        i # j /\ read_check_runs(mdb)[i] = read_check_runs(mdb)[j]

\* C7: a check run that maps to several pull requests after the first lap is given,
\* among those created by the author of the commit, the one with the fewest commits
\* and among these the earliest created one; it is left without a pull request when
\* the author created none of them.
C7_AuthorThenFewestCommits ==
    cr_pc = "disambiguated" => \A id \in CheckRunIds(df_in) :
        LET prs == PullRequestsOf(df_in, id)
            matching == {p \in prs : NodePullRequest[p].author = RowOf(df_in, id).author_user}
            kept == RowOf(df, id).pull_request_node_id
        IN  Cardinality(prs) >= 2 =>
                IF matching = {} THEN kept = None
                ELSE /\ kept \in matching
                     /\ \A p \in matching :
                        \/ NodePullRequestCommit[kept] < NodePullRequestCommit[p]
                        \/ /\ NodePullRequestCommit[kept] = NodePullRequestCommit[p]
                           /\ NodePullRequest[kept].created_at <= NodePullRequest[p].created_at

\* The second lap gave a check run the pull request with fewer commits although the
\* other one of its author was created earlier, and left another run unattributed
C7_Witness ==
    /\ cr_pc = "disambiguated"
    /\ \E id \in CheckRunIds(df_in) :
        /\ PullRequestsOf(df_in, id) = {"A", "D"}
        /\ RowOf(df, id).pull_request_node_id = "D"
    /\ \E id \in CheckRunIds(df_in) :
        /\ Cardinality(PullRequestsOf(df_in, id)) = 2
        /\ RowOf(df, id).pull_request_node_id = None

\* The rows of a status context: unfinished rows of the same suite and url
StatusContextRows(t, s) == {i \in Rows(t) : t[i].completed_at = NaT /\ seed(t[i]) = s}

\* The status contexts of several rows
StatusContextGroups(t) ==
    {s \in {seed(t[i]) : i \in Rows(t)} : Cardinality(StatusContextRows(t, s)) > 1}

\* C8: after _merge_status_contexts one row remains of each group of unfinished rows
\* with the same suite and url; it starts at the earliest started_at of the group, is
\* completed at the latest one and has the status of the latest row; the rows outside
\* of the groups are unchanged.
C8_StatusContextsMerged ==
    cr_pc = "merged" =>
        /\ \A s \in StatusContextGroups(df_in) :
            LET group == StatusContextRows(df_in, s)
                starts == {df_in[i].started_at : i \in group}
                left == {j \in Rows(df) : \E i \in group :
                            df[j].check_run_node_id = df_in[i].check_run_node_id}
            IN  /\ Cardinality(left) = 1
                /\ \A j \in left :
                    /\ df[j].started_at = Min(starts)
                    /\ df[j].completed_at = Max(starts)
                    /\ \E i \in group : /\ df_in[i].started_at = Max(starts)
                                        /\ df[j].status = df_in[i].status
        /\ \A i \in Rows(df_in) :
            seed(df_in[i]) \notin StatusContextGroups(df_in) \/ df_in[i].completed_at # NaT
                => \E j \in Rows(df) : df[j] = df_in[i]

\* started_at a is in front of started_at b, a missing one being last
Earlier(a, b) == a # NaT /\ (b = NaT \/ a < b)

\* The runs of the same suite and name as the run id that started before it
EarlierReruns(t, id) ==
    {i \in Rows(t) : /\ t[i].check_suite_node_id = RowOf(t, id).check_suite_node_id
                     /\ t[i].name = RowOf(t, id).name
                     /\ Earlier(t[i].started_at, RowOf(t, id).started_at)}

\* C9: after _split_duplicate_check_runs no two runs share the suite id and the name,
\* the k-th run by started_at of a suite and name is in the suite of the index k, and
\* runs in the same synthetic suite come from the same suite with the same index.
C9_RerunsSplit ==
    cr_pc = "split" =>
        /\ \A i, j \in Rows(df) :
            (df[i].check_suite_node_id = df[j].check_suite_node_id /\ df[i].name = df[j].name)
                => i = j
        /\ \A i \in Rows(df) :
            df[i].started_at # NaT =>
                df[i].check_suite_node_id =
                    dupe_suite_id(RowOf(df_in, df[i].check_run_node_id).check_suite_node_id,
                                  Cardinality(EarlierReruns(df_in, df[i].check_run_node_id)))
        /\ \A i, j \in Rows(df) :
            df[i].check_suite_node_id = df[j].check_suite_node_id
                => /\ RowOf(df_in, df[i].check_run_node_id).check_suite_node_id
                        = RowOf(df_in, df[j].check_run_node_id).check_suite_node_id
                   /\ Cardinality(EarlierReruns(df_in, df[i].check_run_node_id))
                        = Cardinality(EarlierReruns(df_in, df[j].check_run_node_id))

(***************************************************************************)
(* CHECK-RUN TIMELINE                                                      *)
(***************************************************************************)

\* Time is counted in ticks from 2021-01-01T00:00; a day has TicksPerDay ticks, so
\* that a window need not be a whole number of days.
TicksPerDay == 2
MaxFromDays == 2
MaxWindowDays == 155

\* The first day of each month of 2021, in days from 2021-01-01
MonthStartDays == <<0, 31, 59, 90, 120, 151, 181, 212, 243, 273, 304, 334, 365>>

\* timedelta(days=n)
timedelta_days(n) == n * TicksPerDay

\* rrule(MONTHLY, dtstart=time_from, until=time_to, bymonthday=1): the first day of
\* each month at the time of day of dtstart, from dtstart until `until` inclusive
rrule_monthly(dtstart, until) ==
    Ascending({t \in {timedelta_days(MonthStartDays[m]) + (dtstart % TicksPerDay) :
                        m \in DOMAIN MonthStartDays} :
                dtstart <= t /\ t <= until})

\* A mutation: windows of exactly 35 and 150 days fall into the finer timeline
_build_timeline_inclusive(tf, tt) ==
    LET days == (tt - tf) \div TicksPerDay
    IN  IF days <= 5 * 7
        THEN [i \in 1..(days + 1) |-> tf + timedelta_days(i - 1)]
        ELSE IF days <= 5 * 30
        THEN LET n == (days + 6 + 6) \div 7
             IN  [i \in 1..n |-> IF i = n THEN tt ELSE tf + timedelta_days(7 * (i - 1))]
        ELSE LET monthly == rrule_monthly(tf, tt)
                 head == IF monthly[1] > tf THEN <<tf>> \o monthly ELSE monthly
             IN  IF head[Len(head)] < tt THEN Append(head, tt) ELSE head

\* _build_timeline: the bounds of the buckets of the window [tf, tt]
_build_timeline(tf, tt) ==
    LET days == (tt - tf) \div TicksPerDay
    IN  IF days < 5 * 7
        THEN [i \in 1..(days + 1) |-> tf + timedelta_days(i - 1)]
        ELSE IF days < 5 * 30
        THEN LET n == (days + 6 + 6) \div 7
             IN  [i \in 1..n |-> IF i = n THEN tt ELSE tf + timedelta_days(7 * (i - 1))]
        ELSE LET monthly == rrule_monthly(tf, tt)
                 head == IF monthly[1] > tf THEN <<tf>> \o monthly ELSE monthly
             IN  IF head[Len(head)] < tt THEN Append(head, tt) ELSE head

\* filter_check_runs builds the timeline of its window
BuildTimeline ==
    /\ tl_pc = "idle"
    /\ \E tf \in 0..timedelta_days(MaxFromDays), w \in 0..timedelta_days(MaxWindowDays) :
        /\ time_from' = tf
        /\ time_to' = tf + w
        /\ timeline' = _build_timeline(tf, tf + w)
    /\ tl_pc' = "built"
    /\ UNCHANGED <<planner_vars, miner_vars, later_vars>>

NextTimeline == BuildTimeline

SpecTimeline == Init /\ [][NextTimeline]_vars

StrictlyIncreasing(s) == \A i \in 1..(Len(s) - 1) : s[i] < s[i + 1]

\* C10 as stated: for every time_from <= time_to the timeline is strictly
\* increasing, starts at time_from and ends at time_to.
C10_TimelineCovers ==
    tl_pc = "built" =>
        /\ StrictlyIncreasing(timeline)
        /\ timeline # <<>>
        /\ timeline[1] = time_from
        /\ timeline[Len(timeline)] = time_to

(***************************************************************************)
(* STORAGE GATEWAY   (db.py: ParallelDatabase, ExecuteManyConnection)      *)
(***************************************************************************)

\* The bounds of the connections and of the tasks that use them
MaxConnections == 2
MaxTasks == 2

\* isinstance(self.raw_connection, asyncpg.Connection)
is_asyncpg == dialect = "postgresql"

\* The tasks that wait in self._serialization_lock.acquire()
LockWaiters == {t \in DOMAIN db_tasks : db_tasks[t].pc \in {"execute_acquire", "start_acquire"}}

\* asyncio.Lock.acquire() returns without suspending the task
AcquiresAtOnce == serialization_lock = "free" /\ LockWaiters = {}

\* ParallelDatabase.connect(): the lock exists on SQLite only
Connect ==
    /\ dialect = "none"
    /\ \E d \in {"sqlite", "postgresql"} :
        /\ dialect' = d
        /\ serialization_lock' = IF d = "sqlite" THEN "free" ELSE "None"
    /\ UNCHANGED <<connections, db_tasks, outside_gateway>>

\* ParallelDatabase.connection(): a new connection every time, with the shared lock
NewConnection ==
    /\ dialect # "none"
    /\ Len(connections) < MaxConnections
    /\ connections' = Append(connections, [_locked |-> FALSE])
    /\ UNCHANGED <<dialect, serialization_lock, db_tasks, outside_gateway>>

\* A task starts to work with one of the connections
SpawnTask ==
    /\ Len(db_tasks) < MaxTasks
    /\ \E c \in DOMAIN connections :
        db_tasks' = Append(db_tasks, [conn |-> c, tx |-> FALSE, pc |-> "idle"])
    /\ UNCHANGED <<dialect, serialization_lock, connections, outside_gateway>>

\* The task t moves to the position pc
Goto(t, pc) == db_tasks' = [db_tasks EXCEPT ![t].pc = pc]

SetLocked(c, flag) == connections' = [connections EXCEPT ![c]._locked = flag]

\* ExecuteManyConnection.execute() up to the first suspension
Execute(t) ==
    /\ db_tasks[t].pc = "idle"
    /\ IF is_asyncpg \/ connections[db_tasks[t].conn]._locked
       THEN /\ Goto(t, "execute")
            /\ UNCHANGED <<serialization_lock, connections>>
       ELSE IF AcquiresAtOnce
       THEN /\ serialization_lock' = "held"
            /\ SetLocked(db_tasks[t].conn, TRUE)
            /\ Goto(t, "execute_locked")
       ELSE /\ Goto(t, "execute_acquire")
            /\ UNCHANGED <<serialization_lock, connections>>
    /\ UNCHANGED <<dialect, outside_gateway>>

\* The task is woken up inside `async with self._serialization_lock`
ExecuteAcquired(t) ==
    /\ db_tasks[t].pc = "execute_acquire"
    /\ serialization_lock = "free"
    /\ serialization_lock' = "held"
    /\ SetLocked(db_tasks[t].conn, TRUE)
    /\ Goto(t, "execute_locked")
    /\ UNCHANGED <<dialect, outside_gateway>>

\* super().execute() has finished, with a result or with an exception
ExecuteReturns(t) ==
    /\ db_tasks[t].pc \in {"execute", "execute_locked"}
    /\ IF db_tasks[t].pc = "execute_locked"
       THEN /\ SetLocked(db_tasks[t].conn, FALSE)
            /\ serialization_lock' = "free"
       ELSE UNCHANGED <<serialization_lock, connections>>
    /\ Goto(t, "idle")
    /\ UNCHANGED <<dialect, outside_gateway>>

\* Connection.fetch_all() and the other reads are inherited: they take no lock
FetchAll(t) ==
    /\ db_tasks[t].pc = "idle"
    /\ Goto(t, "fetch_all")
    /\ UNCHANGED <<dialect, serialization_lock, connections, outside_gateway>>

FetchAllReturns(t) ==
    /\ db_tasks[t].pc = "fetch_all"
    /\ Goto(t, "idle")
    /\ UNCHANGED <<dialect, serialization_lock, connections, outside_gateway>>

\* start_transaction() up to the first suspension
StartTransaction(t) ==
    /\ db_tasks[t].pc = "idle"
    /\ ~db_tasks[t].tx
    /\ IF is_asyncpg
       THEN /\ Goto(t, "starting")
            /\ UNCHANGED <<serialization_lock, connections>>
       ELSE IF connections[db_tasks[t].conn]._locked
       THEN /\ Goto(t, "AssertionError")
            /\ UNCHANGED <<serialization_lock, connections>>
       ELSE IF AcquiresAtOnce
       THEN /\ serialization_lock' = "held"
            /\ SetLocked(db_tasks[t].conn, TRUE)
            /\ Goto(t, "starting")
       ELSE /\ Goto(t, "start_acquire")
            /\ UNCHANGED <<serialization_lock, connections>>
    /\ UNCHANGED <<dialect, outside_gateway>>

\* The task is woken up inside self._serialization_lock.acquire()
StartAcquired(t) ==
    /\ db_tasks[t].pc = "start_acquire"
    /\ serialization_lock = "free"
    /\ serialization_lock' = "held"
    /\ SetLocked(db_tasks[t].conn, TRUE)
    /\ Goto(t, "starting")
    /\ UNCHANGED <<dialect, outside_gateway>>

\* original_start() has finished: the transaction is open, or original_start() raised
\* and start_transaction() passes the exception on
Started(t) ==
    /\ db_tasks[t].pc = "starting"
    /\ \E raised \in BOOLEAN :
        db_tasks' = [db_tasks EXCEPT ![t].pc = "idle", ![t].tx = ~raised]
    /\ UNCHANGED <<dialect, serialization_lock, connections, outside_gateway>>

\* commit_transaction() and rollback_transaction() up to the suspension in
\* original_commit() or original_rollback(): the lock is released before it
EndTransaction(t) ==
    /\ db_tasks[t].pc = "idle"
    /\ db_tasks[t].tx
    /\ \E end \in {"committing", "rolling_back"} :
        IF is_asyncpg
        THEN /\ Goto(t, end)
             /\ UNCHANGED <<serialization_lock, connections>>
        ELSE IF ~connections[db_tasks[t].conn]._locked
        THEN /\ Goto(t, "AssertionError")
             /\ UNCHANGED <<serialization_lock, connections>>
        ELSE /\ SetLocked(db_tasks[t].conn, FALSE)
             /\ serialization_lock' = "free"
             /\ Goto(t, end)
    /\ UNCHANGED <<dialect, outside_gateway>>

\* original_commit() or original_rollback() has finished
Ended(t) ==
    /\ db_tasks[t].pc \in {"committing", "rolling_back"}
    /\ db_tasks' = [db_tasks EXCEPT ![t].pc = "idle", ![t].tx = FALSE]
    /\ UNCHANGED <<dialect, serialization_lock, connections, outside_gateway>>

NextGateway ==
    \/ Connect
    \/ NewConnection
    \/ SpawnTask
    \/ \E t \in DOMAIN db_tasks : Execute(t)
    \/ \E t \in DOMAIN db_tasks : ExecuteAcquired(t)
    \/ \E t \in DOMAIN db_tasks : ExecuteReturns(t)
    \/ \E t \in DOMAIN db_tasks : FetchAll(t)
    \/ \E t \in DOMAIN db_tasks : FetchAllReturns(t)
    \/ \E t \in DOMAIN db_tasks : StartTransaction(t)
    \/ \E t \in DOMAIN db_tasks : StartAcquired(t)
    \/ \E t \in DOMAIN db_tasks : Started(t)
    \/ \E t \in DOMAIN db_tasks : EndTransaction(t)
    \/ \E t \in DOMAIN db_tasks : Ended(t)

SpecGateway == Init /\ [][NextGateway]_vars

(***************************************************************************)
(* Properties of the storage gateway                                       *)
(***************************************************************************)

\* The task is inside a write: inside super().execute(), or inside a transaction
\* from original_start() until original_commit() or original_rollback() has finished
InWrite(t) ==
    \/ db_tasks[t].pc \in {"execute", "execute_locked", "starting", "committing", "rolling_back"}
    \/ db_tasks[t].tx

\* C11: on SQLite no two tasks, whether they use two connections or share one, are
\* inside a write at the same time.
C11_SingleWriter ==
    dialect = "sqlite" =>
        \A t1, t2 \in DOMAIN db_tasks : (InWrite(t1) /\ InWrite(t2)) => t1 = t2

(***************************************************************************)
(* RETRYING STORE CALL   (db.py: measure_db_overhead_and_retry)            *)
(***************************************************************************)

\* The None that ends wait_intervals
NoWait == -1

\* The classes of the object that db._backend.connection() returns: the
\* ConnectionBackend of the dialect, which wraps the driver's connection
ConnectionBackends == {"PostgresBackendConnection", "SQLiteBackendConnection"}

\* isinstance(): a ConnectionBackend is neither an asyncpg.Connection nor an
\* aiosqlite.Connection
isinstance(obj, class) == obj.class = class

\* What an attempt of the wrapped method may do
Outcomes == {"result", "OSError", "PostgresConnectionError", "ValueError"}

\* except (OSError, asyncpg.PostgresConnectionError)
ConnectivityErrors == {"OSError", "PostgresConnectionError"}

\* The schedule of the waits in tenths of a second: 0.1 s, 0.5 s, 1.4 s
chosen_wait_intervals(conn) ==
    IF \/ (isinstance(conn, "asyncpg.Connection") /\ conn.in_transaction)
       \/ (isinstance(conn, "aiosqlite.Connection") /\ conn.in_transaction)
    THEN <<NoWait>>
    ELSE <<1, 5, 14, NoWait>>

\* A wrapped method of a connection is called, inside or outside of a transaction
CallWrapped ==
    /\ retry_pc = "idle"
    /\ \E class \in ConnectionBackends, in_transaction \in BOOLEAN :
        /\ connection' = [class |-> class, in_transaction |-> in_transaction]
        /\ wait_intervals' = chosen_wait_intervals(connection')
    /\ retry_pc' = "calling"
    /\ UNCHANGED <<attempts, slept, outside_retry>>

\* One iteration of the loop: await func(*args, **kwargs)
Attempt ==
    /\ retry_pc = "calling"
    /\ \E outcome \in Outcomes :
        /\ attempts' = Append(attempts, outcome)
        /\ retry_pc' = IF outcome = "result" THEN "returned"
                       ELSE IF outcome \notin ConnectivityErrors THEN "raised"
                       ELSE IF wait_intervals[Len(attempts')] = NoWait THEN "raised"
                       ELSE "sleeping"
    /\ UNCHANGED <<connection, wait_intervals, slept, outside_retry>>

\* await asyncio.sleep(wait_time) has finished
Slept ==
    /\ retry_pc = "sleeping"
    /\ slept' = Append(slept, wait_intervals[Len(attempts)])
    /\ retry_pc' = "calling"
    /\ UNCHANGED <<connection, wait_intervals, attempts, outside_retry>>

NextRetry == CallWrapped \/ Attempt \/ Slept

SpecRetry == Init /\ [][NextRetry]_vars

(***************************************************************************)
(* Properties of the retrying store call                                   *)
(***************************************************************************)

IsPrefix(s, t) == Len(s) <= Len(t) /\ \A i \in DOMAIN s : s[i] = t[i]

\* Every attempt but the last failed with a connectivity error, and each was followed
\* by the next wait of 0.1 s, 0.5 s, 1.4 s
RetriedInOrder ==
    /\ Len(attempts) <= 4
    /\ IsPrefix(slept, <<1, 5, 14>>)
    /\ \A i \in 1..(Len(attempts) - 1) : attempts[i] \in ConnectivityErrors
    /\ retry_pc \in {"returned", "raised"} => Len(slept) = Len(attempts) - 1
    /\ retry_pc = "returned" => attempts[Len(attempts)] = "result"
    /\ retry_pc = "raised" =>
        \/ attempts[Len(attempts)] \notin ConnectivityErrors \cup {"result"}
        \/ attempts[Len(attempts)] \in ConnectivityErrors /\ Len(attempts) = 4

\* C12: outside of a transaction a call that fails with a connectivity error is
\* retried after 0.1 s, 0.5 s and 1.4 s, at most 4 attempts are made, the first result
\* is returned, the 4th failure and any other error propagate; inside a transaction
\* the call is attempted once and never retried.
C12_RetriesOutsideTransaction ==
    IF connection.in_transaction
    THEN Len(attempts) <= 1 /\ slept = <<>> /\ retry_pc # "sleeping"
    ELSE RetriedInOrder
(***************************************************************************)
(* ACCOUNT HEATER   (hacks/heat_cache.py: main, async_run, sentry_wrapper) *)
(***************************************************************************)

MaxAccounts == 2
MaxReposets == 2

\* What the query of the active accounts may return, ordered by created_at
ActiveAccounts == UNION {Orders(S) : S \in SUBSET (1..MaxAccounts)}

\* The "all" reposets of the given accounts in the state store; the id of a reposet
\* is its position
RepositorySets(owners) ==
    UNION {{table \in [1..n -> [id : 1..n, owner_id : owners, precomputed : BOOLEAN,
                                updates_count : {1}]] :
                \A k \in 1..n : table[k].id = k} : n \in 0..MaxReposets}

\* What load_account_state() may give for an account
ProgressStates == {"finished", "unfinished", "None", "raise"}

\* The reposet of the running iteration
reposet == reposets[reposet_i]

\* A record of the log about a failed or skipped step
LogRecord(level, step, owner, id) ==
    [level |-> level, step |-> step, account |-> owner, reposet |-> id]

\* A called operation with its account argument, while reposet `id` is heated
Await(op, arg, id) == [op |-> op, account |-> arg, reposet |-> id]

\* The calls made by a block of awaits, each a group of operations gathered together,
\* when group `raised` raises (0: none raises)
made(groups, raised) ==
    Flatten(IF raised = 0 THEN groups ELSE SubSeq(groups, 1, raised))

\* sentry_wrapper(): an error that leaves async_run() ends the pass
sentry_wrapper(step, owner, id) ==
    /\ log' = Append(log, LogRecord("unhandled error", step, owner, id))
    /\ return_code' = 1
    /\ heater_pc' = "returned"

\* return_code = 1 of the except blocks
failed_return_code_kept(code) == code

failed_return_code(code) == 1

\* The except blocks of the steps of a reposet
except(step) ==
    /\ log' = Append(log, LogRecord("failed", step, reposet.owner_id, reposet.id))
    /\ return_code' = failed_return_code(return_code)
    /\ failed_accounts' = failed_accounts \cup {reposet.owner_id}

\* The loop goes to its iteration i, or ends
for_reposet(i, fetched) ==
    /\ reposet_i' = i
    /\ heater_pc' = IF i <= Len(fetched) THEN "progress" ELSE "returned"

\* update(RepositorySet).where(id == reposet.id).values({precomputed: True,
\* updates_count: RepositorySet.updates_count, ...})
update_precomputed(table, id) ==
    [k \in DOMAIN table |->
        IF table[k].id = id
        THEN [table[k] EXCEPT !.precomputed = TRUE,
                              !.updates_count = table[k].updates_count]
        ELSE table[k]]

\* The awaits of the prolog
prolog_calls(rs) ==
    << <<Await("get_metadata_account_ids", rs.owner_id, rs.id)>>,
       <<Await("fetch_bots", rs.owner_id, rs.id),
         Await("refresh_repository_names", rs.owner_id, rs.id)>> >>

\* The awaits of the mining block, with Slack configured
mining_calls(rs, loop_account) ==
    << <<Await("Settings.from_account", rs.owner_id, rs.id)>>,
       <<Await("mine_releases", rs.owner_id, rs.id)>> >>
    \o (IF rs.precomputed
        THEN << <<Await("delete_force_push_dropped_prs", rs.owner_id, rs.id)>> >>
        ELSE << >>)
    \o << <<Await("calc_pull_request_facts_github", rs.owner_id, rs.id)>>,
          <<Await("hide_first_releases", loop_account, rs.id)>>,
          <<Await("mine_deployments", rs.owner_id, rs.id)>> >>
    \o (IF rs.precomputed
        THEN << >>
        ELSE << <<Await("generate_jira_invitation_link", rs.owner_id, rs.id)>> >>)

\* main() until async_run(): the schema versions are checked
Main ==
    /\ heater_pc = "idle"
    /\ \E ok \in BOOLEAN :
        IF ok
        THEN /\ return_code' = 0
             /\ heater_pc' = "sync_labels"
             /\ UNCHANGED <<log, exit_code>>
        ELSE /\ log' = Append(log, LogRecord("failed", "check_schema_versions", 0, 0))
             /\ exit_code' = 1
             /\ heater_pc' = "exited"
             /\ UNCHANGED return_code
    /\ UNCHANGED <<state_db, accounts, account, account_progress_settings, reposets,
                   reposet_i, failed_accounts, successful_accounts, calls,
                   outside_heater>>

\* return_code = await sync_labels(...), then the active accounts are queried
SyncLabels ==
    /\ heater_pc = "sync_labels"
    /\ \E raised \in BOOLEAN, result \in {0, 1} :
        IF raised
        THEN /\ sentry_wrapper("sync_labels", 0, 0)
             /\ UNCHANGED <<state_db, accounts>>
        ELSE /\ return_code' = result
             /\ log' = IF result = 1
                       THEN Append(log, LogRecord("failed", "sync_labels", 0, 0))
                       ELSE log
             /\ accounts' \in ActiveAccounts
             /\ state_db' \in RepositorySets(Range(accounts'))
             /\ heater_pc' = "load_account_state"
    /\ UNCHANGED <<account, account_progress_settings, reposets, reposet_i,
                   failed_accounts, successful_accounts, calls, exit_code,
                   outside_heater>>

\* How many accounts the progress loop has visited
visited == IF account = 0 THEN 0
           ELSE CHOOSE k \in DOMAIN accounts : accounts[k] = account

\* One iteration of `for account in accounts`
LoadAccountState ==
    /\ heater_pc = "load_account_state"
    /\ visited < Len(accounts)
    /\ account' = accounts[visited + 1]
    /\ \E state \in ProgressStates :
        IF state = "raise"
        THEN /\ sentry_wrapper("load_account_state", account', 0)
             /\ UNCHANGED account_progress_settings
        ELSE /\ account_progress_settings' =
                    IF state # "None" THEN Put(account_progress_settings, account', state)
                    ELSE account_progress_settings
             /\ UNCHANGED <<log, return_code, heater_pc>>
    /\ UNCHANGED <<state_db, accounts, reposets, reposet_i, failed_accounts,
                   successful_accounts, calls, exit_code, outside_heater>>

\* The reposets of the active accounts are fetched and the loop over them starts
FetchReposets ==
    /\ heater_pc = "load_account_state"
    /\ visited = Len(accounts)
    /\ reposets' = SelectSeq(state_db, LAMBDA r : r.owner_id \in Range(accounts))
    /\ for_reposet(1, reposets')
    /\ UNCHANGED <<state_db, accounts, account, account_progress_settings, return_code,
                   failed_accounts, successful_accounts, log, calls, exit_code,
                   outside_heater>>

\* The progress of the owner is looked up: a reposet without a finished progress is
\* skipped
CheckProgress ==
    /\ heater_pc = "progress"
    /\ IF reposet.owner_id \notin DOMAIN account_progress_settings
       THEN /\ log' = Append(log, LogRecord("skipped", "progress does not exist",
                                            reposet.owner_id, reposet.id))
            /\ for_reposet(reposet_i + 1, reposets)
       ELSE IF account_progress_settings[reposet.owner_id] # "finished"
       THEN /\ log' = Append(log, LogRecord("skipped", "progress is not 100%",
                                            reposet.owner_id, reposet.id))
            /\ for_reposet(reposet_i + 1, reposets)
       ELSE /\ heater_pc' = "prolog"
            /\ UNCHANGED <<log, reposet_i>>
    /\ UNCHANGED <<state_db, accounts, account, account_progress_settings, reposets,
                   return_code, failed_accounts, successful_accounts, calls, exit_code,
                   outside_heater>>

\* A mutation: no continue after an error of the prolog
PrologNoContinue ==
    /\ heater_pc = "prolog"
    /\ \E raised \in 0..Len(prolog_calls(reposet)) :
        /\ calls' = calls \o made(prolog_calls(reposet), raised)
        /\ IF raised # 0
           THEN /\ except("prolog")
                /\ heater_pc' = "create_teams"
                /\ UNCHANGED reposet_i
           ELSE /\ heater_pc' = "create_teams"
                /\ UNCHANGED <<log, return_code, failed_accounts, reposet_i>>
    /\ UNCHANGED <<state_db, accounts, account, account_progress_settings, reposets,
                   successful_accounts, exit_code, outside_heater>>

\* The prolog: on an error the reposet is given up
Prolog ==
    /\ heater_pc = "prolog"
    /\ \E raised \in 0..Len(prolog_calls(reposet)) :
        /\ calls' = calls \o made(prolog_calls(reposet), raised)
        /\ IF raised # 0
           THEN /\ except("prolog")
                /\ for_reposet(reposet_i + 1, reposets)
           ELSE /\ heater_pc' = "create_teams"
                /\ UNCHANGED <<log, return_code, failed_accounts, reposet_i>>
    /\ UNCHANGED <<state_db, accounts, account, account_progress_settings, reposets,
                   successful_accounts, exit_code, outside_heater>>

\* The teams of a reposet that is not precomputed are created; no continue on an error
CreateTeams ==
    /\ heater_pc = "create_teams"
    /\ IF reposet.precomputed
       THEN UNCHANGED <<log, return_code, failed_accounts, calls>>
       ELSE /\ calls' = Append(calls, Await("create_teams", reposet.owner_id, reposet.id))
            /\ \E raised \in BOOLEAN :
                IF raised THEN except("teams")
                ELSE UNCHANGED <<log, return_code, failed_accounts>>
    /\ heater_pc' = "match_jira_identities"
    /\ UNCHANGED <<state_db, accounts, account, account_progress_settings, reposets,
                   reposet_i, successful_accounts, exit_code, outside_heater>>

\* The JIRA identities are matched; no continue on an error
MatchJiraIdentities ==
    /\ heater_pc = "match_jira_identities"
    /\ calls' = Append(calls, Await("match_jira_identities", reposet.owner_id, reposet.id))
    /\ \E raised \in BOOLEAN :
        IF raised THEN except("match_jira_identities")
        ELSE UNCHANGED <<log, return_code, failed_accounts>>
    /\ heater_pc' = "mining"
    /\ UNCHANGED <<state_db, accounts, account, account_progress_settings, reposets,
                   reposet_i, successful_accounts, exit_code, outside_heater>>

\* The try block that mines the releases, the PR facts and the deployments
Mine ==
    /\ heater_pc = "mining"
    /\ \E raised \in 0..Len(mining_calls(reposet, account)) :
        /\ calls' = calls \o made(mining_calls(reposet, account), raised)
        /\ IF raised # 0
           THEN /\ except("reposet")
                /\ heater_pc' = "finally"
           ELSE /\ heater_pc' = "else"
                /\ UNCHANGED <<log, return_code, failed_accounts>>
    /\ UNCHANGED <<state_db, accounts, account, account_progress_settings, reposets,
                   reposet_i, successful_accounts, exit_code, outside_heater>>

\* The else block: the reposet is marked precomputed; the statement is outside of the
\* try, so its error leaves async_run()
MarkPrecomputed ==
    /\ heater_pc = "else"
    /\ IF reposet.precomputed
       THEN /\ heater_pc' = "finally"
            /\ UNCHANGED <<state_db, log, return_code>>
       ELSE \E raised \in BOOLEAN :
                IF raised
                THEN /\ sentry_wrapper("update", reposet.owner_id, reposet.id)
                     /\ UNCHANGED state_db
                ELSE /\ state_db' = update_precomputed(state_db, reposet.id)
                     /\ heater_pc' = "finally"
                     /\ UNCHANGED <<log, return_code>>
    /\ UNCHANGED <<accounts, account, account_progress_settings, reposets, reposet_i,
                   failed_accounts, successful_accounts, calls, exit_code,
                   outside_heater>>

\* The finally block and the end of the iteration
WaitDeferred ==
    /\ heater_pc = "finally"
    /\ \E raised \in BOOLEAN :
        IF raised
        THEN /\ sentry_wrapper("wait_deferred", reposet.owner_id, reposet.id)
             /\ UNCHANGED <<successful_accounts, reposet_i>>
        ELSE /\ successful_accounts' = successful_accounts \cup {reposet.owner_id}
             /\ for_reposet(reposet_i + 1, reposets)
             /\ UNCHANGED <<log, return_code>>
    /\ UNCHANGED <<state_db, accounts, account, account_progress_settings, reposets,
                   failed_accounts, calls, exit_code, outside_heater>>

\* return return_code
Return ==
    /\ heater_pc = "returned"
    /\ exit_code' = return_code
    /\ heater_pc' = "exited"
    /\ UNCHANGED <<state_db, accounts, account, account_progress_settings, reposets,
                   reposet_i, return_code, failed_accounts, successful_accounts, log,
                   calls, outside_heater>>

NextHeater ==
    \/ Main
    \/ SyncLabels
    \/ LoadAccountState
    \/ FetchReposets
    \/ CheckProgress
    \/ Prolog
    \/ CreateTeams
    \/ MatchJiraIdentities
    \/ Mine
    \/ MarkPrecomputed
    \/ WaitDeferred
    \/ Return

SpecHeater == Init /\ [][NextHeater]_vars
(***************************************************************************)
(* Properties of the account heater                                        *)
(***************************************************************************)

\* The steps the heater makes for one account or reposet
PerAccountSteps ==
    {"load_account_state", "prolog", "teams", "match_jira_identities", "reposet",
     "update", "wait_deferred"}

\* The reposet with this id has been attempted: its prolog has been started
Attempted(id) ==
    \E k \in DOMAIN calls :
        calls[k].reposet = id /\ calls[k].op = "get_metadata_account_ids"

\* The owner of the reposet has a finished progress state
FinishedOwner(r) ==
    /\ r.owner_id \in DOMAIN account_progress_settings
    /\ account_progress_settings[r.owner_id] = "finished"

\* C13: a failure of a step made for one account or reposet is logged and recorded
\* and does not stop the pass: when the heater exits, every reposet whose owner has a
\* finished progress state has been attempted.
C13_FailureIsolation ==
    /\ \A k \in DOMAIN log :
        log[k].step \in PerAccountSteps =>
            /\ log[k].level = "failed"
            /\ log[k].account \in failed_accounts
    /\ heater_pc = "exited" =>
        \A k \in DOMAIN state_db : FinishedOwner(state_db[k]) => Attempted(state_db[k].id)

\* The owner of the reposet with this id
OwnerOf(id) == (CHOOSE r \in Range(state_db) : r.id = id).owner_id

\* C14: every operation called while a reposet is heated has the owner of that
\* reposet as its account.
C14_AccountScoped ==
    \A k \in DOMAIN calls : calls[k].account = OwnerOf(calls[k].reposet)

\* The heating of the reposet has completed: its prolog and its mining block ended
\* without an error (an error of the team creation or of the JIRA identity matching
\* does not end the heating of the reposet)
Heated(r) ==
    /\ r.id < reposet_i
    /\ Attempted(r.id)
    /\ \A k \in DOMAIN log :
        log[k].reposet = r.id => log[k].step \in {"teams", "match_jira_identities"}

\* The row of the state store that was fetched as r
RowOfReposet(r) == CHOOSE row \in Range(state_db) : row.id = r.id

\* C15: once the iteration of a reposet has ended, a reposet that was not precomputed
\* and has been heated without a failure is precomputed in the store with updates_count
\* increased by one; any other reposet is as it was fetched.
C15_MarkedPrecomputedOnce ==
    \A i \in 1..(reposet_i - 1) :
        IF Heated(reposets[i]) /\ ~reposets[i].precomputed
        THEN RowOfReposet(reposets[i]) =
                [reposets[i] EXCEPT !.precomputed = TRUE,
                                    !.updates_count = reposets[i].updates_count + 1]
        ELSE RowOfReposet(reposets[i]) = reposets[i]

\* Something has failed: the schema check, the label sync, a step of an account, or
\* an error was not handled
AnyFailure == \E k \in DOMAIN log : log[k].level \in {"failed", "unhandled error"}

\* C16: the exit code is 1 exactly when something failed, and from a failure on the
\* return code stays 1.
C16_ExitCode ==
    /\ (AnyFailure /\ heater_pc # "exited") => return_code = 1
    /\ heater_pc = "exited" => (exit_code = 1 <=> AnyFailure)
    /\ heater_pc = "exited" => exit_code \in {0, 1}

\* A reposet failed, a later one was heated with success, and the heater exited
C16_Witness ==
    /\ heater_pc = "exited"
    /\ exit_code = 1
    /\ \E k \in DOMAIN log :
        /\ log[k].level = "failed"
        /\ log[k].reposet = 1
    /\ Len(reposets) = 2
    /\ 2 \in DOMAIN state_db
    /\ Heated(reposets[2])
(***************************************************************************)
(* NUMPY STRUCT   (typing_utils.py: NumpyStruct, numpy_struct)             *)
(***************************************************************************)

MaxChars == 2
MaxItems == 2

\* The byte that pads the strings of a numpy array
NUL == 0

\* The characters of the strings, as their codes, and the timestamps
Chars == {1, 2}
Times == {0, 1}

\* Python values: each carries its type, then its content; a string is the sequence
\* of its characters
NoneType == <<"NoneType">>
datetime(t) == <<"datetime", t>>
text(s) == <<"str", s>>
bytes(s) == <<"bytes", s>>
ndarray(items) == <<"ndarray", items>>

\* cls.dtype and cls.nested_dtypes as numpy_struct() builds them from the annotations
\* created: "datetime64[s]", node: ascii[MaxChars], sha: "S<MaxChars>",
\* activity_days: ["datetime64[s]"], labels: [ascii].  One cell of `data` is one
\* character, one timestamp or one int32.
dtype ==
    << [name |-> "created", char |-> "M", itemsize |-> 1, type_ |-> "datetime64",
        nested_dtype |-> "None"],
       [name |-> "node", char |-> "S", itemsize |-> MaxChars, type_ |-> "str",
        nested_dtype |-> "None"],
       [name |-> "sha", char |-> "S", itemsize |-> MaxChars, type_ |-> "bytes_",
        nested_dtype |-> "None"],
       [name |-> "activity_days", char |-> "i", itemsize |-> 2, type_ |-> "ndarray",
        nested_dtype |-> "datetime64[s]"],
       [name |-> "labels", char |-> "i", itemsize |-> 3, type_ |-> "ndarray",
        nested_dtype |-> "ascii"] >>

_dtype_is_ascii(type) == type = "ascii"

RECURSIVE dtype_offset(_)
\* Where the field k starts in the fixed part; dtype.itemsize for k past the last field
dtype_offset(k) == IF k = 1 THEN 0 ELSE dtype_offset(k - 1) + dtype[k - 1].itemsize

dtype_itemsize == dtype_offset(Len(dtype) + 1)

\* The strings and the arrays that the fields may be given
Strings == UNION {[1..n -> Chars] : n \in 0..MaxChars}
Labels == {s \in Strings : \A i \in DOMAIN s : s[i] = 1 + ((i - 1) % 2)}
Arrays(items) == {ndarray(a) : a \in UNION {[1..n -> items] : n \in 0..MaxItems}}

FieldValues(field) ==
    CASE field.name = "created" -> {NoneType} \cup {datetime(t) : t \in Times}
      [] field.name = "node" -> {NoneType} \cup {text(s) : s \in Strings}
      [] field.name = "sha" -> {NoneType} \cup {bytes(s) : s \in Strings}
      [] field.name = "activity_days" -> Arrays({datetime(t) : t \in Times})
      [] field.name = "labels" -> Arrays({NoneType} \cup {bytes(s) : s \in Labels})

FieldNames == {dtype[k].name : k \in DOMAIN dtype}

\* The index of a field
FieldIndex(name) == CHOOSE k \in DOMAIN dtype : dtype[k].name = name

Kwargs ==
    {[created |-> v1, node |-> v2, sha |-> v3, activity_days |-> v4, labels |-> v5] :
        v1 \in FieldValues(dtype[1]), v2 \in FieldValues(dtype[2]),
        v3 \in FieldValues(dtype[3]), v4 \in FieldValues(dtype[4]),
        v5 \in FieldValues(dtype[5])}

\* A string stored in `size` bytes: cut to the size and padded with NUL
stored(s, size) == [i \in 1..size |-> IF i <= Len(s) THEN s[i] ELSE NUL]

\* A string read from its bytes: the trailing NUL-s are dropped
RECURSIVE rstrip(_)
rstrip(s) == IF s # <<>> /\ s[Len(s)] = NUL THEN rstrip(SubSeq(s, 1, Len(s) - 1)) ELSE s

\* arr[field_name] = np.asarray(value, field_dtype) of a field that is not an array
asarray(value, field) ==
    IF field.char = "M"
    THEN IF value = NoneType THEN <<NaT>> ELSE <<value[2]>>
    ELSE stored(IF value = NoneType THEN <<>> ELSE value[2], field.itemsize)

\* np.asarray(value, "S").dtype.itemsize: the longest string, 1 at least
string_itemsize(strings) == Max({1} \cup {Len(strings[i]) : i \in DOMAIN strings})

\* The strings of an array of strings; value[nan_mask] = ""
nan_masked(items) ==
    [i \in DOMAIN items |-> IF items[i] = NoneType THEN <<>> ELSE items[i][2]]

\* value.view(np.byte).data of an array field
view_bytes(value, field) ==
    IF _dtype_is_ascii(field.nested_dtype)
    THEN LET strings == nan_masked(value[2])
         IN Flatten([i \in DOMAIN strings |-> stored(strings[i], string_itemsize(strings))])
    ELSE [i \in DOMAIN value[2] |-> value[2][i][2]]

\* pointer = [offset, len(value)], with the item size appended for the strings
pointer(value, field, offset) ==
    IF _dtype_is_ascii(field.nested_dtype)
    THEN <<offset, Len(value[2]), string_itemsize(nan_masked(value[2]))>>
    ELSE <<offset, Len(value[2])>>

\* offset += len(data)
moved_offset_not(offset, bytes_) == offset

moved_offset(offset, bytes_) == offset + Len(bytes_)

\* The loop of from_fields() from the field k on, and the bytes it returns
RECURSIVE from_fields_loop(_, _, _, _, _)
from_fields_loop(kw, k, arr, extra_bytes, offset) ==
    IF k > Len(dtype) THEN arr \o Flatten(extra_bytes)
    ELSE LET field == dtype[k]
             value == kw[field.name]
         IN IF field.nested_dtype = "None"
            THEN from_fields_loop(kw, k + 1, arr \o asarray(value, field), extra_bytes, offset)
            ELSE from_fields_loop(kw, k + 1, arr \o pointer(value, field, offset),
                                  Append(extra_bytes, view_bytes(value, field)),
                                  moved_offset(offset, view_bytes(value, field)))

from_fields(kw) == from_fields_loop(kw, 1, <<>>, <<>>, dtype_itemsize)

\* np.frombuffer(data, nested_dtype, offset=offset, count=count), the items `itemsize`
\* cells each
frombuffer(buffer, offset, count, itemsize) ==
    [i \in 1..count |->
        [j \in 1..itemsize |-> buffer[offset + (i - 1) * itemsize + j]]]

\* get_field of _generate_get(name, type_) for the field k
get_field(buffer, k) ==
    LET field == dtype[k]
        value == SubSeq(buffer, dtype_offset(k) + 1, dtype_offset(k) + field.itemsize)
    IN IF field.nested_dtype = "None"
       THEN IF field.char = "M"
            THEN IF value[1] = NaT THEN NoneType ELSE datetime(value[1])
            ELSE IF field.type_ = "str"
            THEN IF rstrip(value) = <<>> THEN NoneType ELSE text(rstrip(value))
            ELSE bytes(rstrip(value))
       ELSE IF _dtype_is_ascii(field.nested_dtype)
       THEN LET items == frombuffer(buffer, value[1], value[2], value[3])
            IN ndarray([i \in DOMAIN items |-> bytes(rstrip(items[i]))])
       ELSE LET items == frombuffer(buffer, value[1], value[2], 1)
            IN ndarray([i \in DOMAIN items |-> datetime(items[i][1])])

\* cls.from_fields(**kwargs)
FromFields ==
    /\ struct_pc = "idle"
    /\ struct_kwargs' \in Kwargs
    /\ struct_data' = from_fields(struct_kwargs')
    /\ struct_pc' = "built"
    /\ UNCHANGED <<struct_fields, outside_struct>>

\* Every field is read from cls(data)
GetFields ==
    /\ struct_pc = "built"
    /\ struct_fields' = [name \in FieldNames |-> get_field(struct_data, FieldIndex(name))]
    /\ struct_pc' = "read"
    /\ UNCHANGED <<struct_kwargs, struct_data, outside_struct>>

\* The struct is built again from the fields that were read
Reserialize ==
    /\ struct_pc = "read"
    /\ struct_kwargs' = struct_fields
    /\ struct_data' = from_fields(struct_fields)
    /\ struct_pc' = "built"
    /\ UNCHANGED <<struct_fields, outside_struct>>

NextStruct == FromFields \/ GetFields \/ Reserialize

SpecStruct == Init /\ [][NextStruct]_vars

(***************************************************************************)
(* Properties of the struct                                                *)
(***************************************************************************)

\* C17: every field reads the value it was given.
C17_RoundTrip ==
    struct_pc = "read" => \A name \in FieldNames : struct_fields[name] = struct_kwargs[name]

\* What a given value is read as: an empty str as None, an absent byte string and an
\* absent string of an array as the empty byte string
AsRead(field, value) ==
    IF field.type_ = "str" /\ value = text(<<>>) THEN NoneType
    ELSE IF field.type_ = "bytes_" /\ value = NoneType THEN bytes(<<>>)
    ELSE IF _dtype_is_ascii(field.nested_dtype)
    THEN ndarray([i \in DOMAIN value[2] |->
                    IF value[2][i] = NoneType THEN bytes(<<>>) ELSE value[2][i]])
    ELSE value

\* C17 (amended): every field reads the value it was given, where an empty str reads
\* as None and an absent byte string reads as the empty byte string; the fields that
\* were read from a struct read the same after they are serialized again.
C17_RoundTripNormalised ==
    struct_pc = "read" =>
        /\ \A k \in DOMAIN dtype :
            struct_fields[dtype[k].name] = AsRead(dtype[k], struct_kwargs[dtype[k].name])
        /\ \A name \in FieldNames :
            get_field(from_fields(struct_fields), FieldIndex(name)) = struct_fields[name]

\* A struct with an absent scalar, an empty string and two arrays that are not empty
\* has been read
C17_Witness ==
    /\ struct_pc = "read"
    /\ struct_kwargs["created"] = NoneType
    /\ struct_kwargs["node"] = text(<<>>)
    /\ Len(struct_kwargs["activity_days"][2]) = 2
    /\ struct_kwargs["labels"] = ndarray(<<bytes(<<1, 2>>), NoneType>>)
(***************************************************************************)
(* PR REVIEW TIME   (pull_request_metrics.py: ReviewTimeCalculator)        *)
(***************************************************************************)

MaxHours == 3

timedelta(hours) == <<"timedelta", hours>>

\* The timestamps of a pull request: each is None or an hour
PullRequestTimes ==
    [first_review_request : {NoneType} \cup {datetime(t) : t \in 0..MaxHours},
     approved : {NoneType} \cup {datetime(t) : t \in 0..MaxHours},
     last_review : {NoneType} \cup {datetime(t) : t \in 0..MaxHours},
     closed : {NoneType} \cup {datetime(t) : t \in 0..MaxHours}]

\* The truth value of a timestamp of PullRequestTimes: it is set
is_set(time) == time # NoneType

\* time.best of a timestamp that is set
best(time) == time[2]

\* ReviewTimeCalculator.analyze(times)
analyze_open(pr) ==
    IF is_set(pr.first_review_request)
    THEN IF is_set(pr.approved)
         THEN timedelta(best(pr.approved) - best(pr.first_review_request))
         ELSE IF is_set(pr.last_review)
         THEN timedelta(best(pr.last_review) - best(pr.first_review_request))
         ELSE NoneType
    ELSE NoneType

analyze(pr) ==
    IF is_set(pr.first_review_request) /\ is_set(pr.closed)
    THEN IF is_set(pr.approved)
         THEN timedelta(best(pr.approved) - best(pr.first_review_request))
         ELSE IF is_set(pr.last_review)
         THEN timedelta(best(pr.last_review) - best(pr.first_review_request))
         ELSE NoneType
    ELSE NoneType

\* The times of a pull request are mined
MineTimes ==
    /\ review_pc = "idle"
    /\ times' \in PullRequestTimes
    /\ review_pc' = "mined"
    /\ UNCHANGED <<review_time, outside_review>>

\* The calculator analyzes the pull request
Analyze ==
    /\ review_pc = "mined"
    /\ review_time' = analyze(times)
    /\ review_pc' = "analyzed"
    /\ UNCHANGED <<times, outside_review>>

NextReview == MineTimes \/ Analyze

SpecReview == Init /\ [][NextReview]_vars

(***************************************************************************)
(* Properties of pr-review-time                                            *)
(***************************************************************************)

\* The review time from the first review request to `till`
Since(till) == timedelta(till[2] - times.first_review_request[2])

\* C18 (amended): of a pull request with a first review request that is closed the
\* review time is approved - first_review_request if it is approved, else
\* last_review - first_review_request if it is reviewed; any other pull request has
\* no review time.
C18_ReviewTimeOfClosed ==
    review_pc = "analyzed" =>
        IF times.first_review_request # NoneType /\ times.closed # NoneType
        THEN /\ times.approved # NoneType => review_time = Since(times.approved)
             /\ (times.approved = NoneType /\ times.last_review # NoneType) =>
                    review_time = Since(times.last_review)
             /\ (times.approved = NoneType /\ times.last_review = NoneType) =>
                    review_time = NoneType
        ELSE review_time = NoneType

\* C18: the review time is approved - first_review_request whenever the pull request
\* has a first review request and an approval, and is as the code computes it.
C18_ReviewTimeWhenApproved ==
    /\ C18_ReviewTimeOfClosed
    /\ review_pc = "analyzed" =>
        ((times.first_review_request # NoneType /\ times.approved # NoneType) =>
            review_time = Since(times.approved))

\* The scenario: review requested at 1h, approved at 2h, merged at 3h gives 1h
C18_Witness ==
    /\ review_pc = "analyzed"
    /\ times.first_review_request = datetime(1)
    /\ times.approved = datetime(2)
    /\ times.closed = datetime(3)
    /\ review_time = timedelta(1)
(***************************************************************************)
(* CONFIDENCE SCORE   (features/metric.py: Metric.confidence_score)        *)
(***************************************************************************)

MaxValue == 3

\* The metrics: a value inside its confidence interval, of either sign
Metric ==
    {m \in [exists : BOOLEAN, value : -MaxValue..MaxValue,
            confidence_min : -MaxValue..MaxValue, confidence_max : -MaxValue..MaxValue] :
        m.confidence_min <= m.value /\ m.value <= m.confidence_max}

Abs(x) == IF x < 0 THEN -x ELSE x

\* int(a / b) of Python: the quotient cut towards zero
int_div(a, b) ==
    IF (a < 0) = (b < 0) THEN Abs(a) \div Abs(b) ELSE -(Abs(a) \div Abs(b))

\* 100 * (confidence_max - confidence_min) / value raises ZeroDivisionError
raises_ZeroDivisionError(m) == m.exists /\ m.value = 0

\* Metric.confidence_score() when the division does not raise
confidence_score(m) ==
    IF ~m.exists THEN 0
    ELSE LET eps == Min({int_div(100 * (m.confidence_max - m.confidence_min), m.value), 100})
         IN 100 - eps

\* A metric is calculated
Measure ==
    /\ score_pc = "idle"
    /\ self_metric' \in Metric
    /\ score_pc' = "measured"
    /\ UNCHANGED <<score, outside_score>>

\* metric.confidence_score()
ConfidenceScore ==
    /\ score_pc = "measured"
    /\ IF raises_ZeroDivisionError(self_metric)
       THEN /\ score_pc' = "raised"
            /\ UNCHANGED score
       ELSE /\ score' = confidence_score(self_metric)
            /\ score_pc' = "returned"
    /\ UNCHANGED <<self_metric, outside_score>>

NextScore == Measure \/ ConfidenceScore

SpecScore == Init /\ [][NextScore]_vars

(***************************************************************************)
(* Properties of the confidence score                                      *)
(***************************************************************************)

\* C19: the call never fails and returns a score from 0 to 100: 0 for a metric that
\* does not exist.
C19_ScoreFrom0To100 ==
    /\ score_pc # "raised"
    /\ score_pc = "returned" =>
        /\ score \in 0..100
        /\ ~self_metric.exists => score = 0
(***************************************************************************)
(* TIME INTERVAL OF A METRICS REQUEST   (metrics.py: _parse_time_interval) *)
(***************************************************************************)

MaxDay == 4

\* The interval of two dates: from the midnight of the first to the midnight of the
\* second
goal_dates_to_datetimes(date_from, date_to) ==
    <<date_from * TicksPerDay, date_to * TicksPerDay>>

\* _parse_time_interval(params): the interval, or the error it raises
_parse_time_interval_strict(p, now_date) ==
    LET date_from == p.validFrom
        date_to == p.expiresAt
    IN IF date_from >= date_to
       THEN [error |-> [kind |-> "InvalidRequestError",
                        pointer |-> ".validFrom or .expiresAt"],
             interval |-> <<>>]
       ELSE IF date_from > now_date
       THEN [error |-> [kind |-> "InvalidRequestError", pointer |-> ".validFrom"],
             interval |-> <<>>]
       ELSE [error |-> NoError, interval |-> goal_dates_to_datetimes(date_from, date_to)]

_parse_time_interval(p, now_date) ==
    LET date_from == p.validFrom
        date_to == p.expiresAt
    IN IF date_from > date_to
       THEN [error |-> [kind |-> "InvalidRequestError",
                        pointer |-> ".validFrom or .expiresAt"],
             interval |-> <<>>]
       ELSE IF date_from > now_date
       THEN [error |-> [kind |-> "InvalidRequestError", pointer |-> ".validFrom"],
             interval |-> <<>>]
       ELSE [error |-> NoError, interval |-> goal_dates_to_datetimes(date_from, date_to)]

\* A request arrives on some day
RequestInterval ==
    /\ interval_pc = "idle"
    /\ params' \in [validFrom : 0..MaxDay, expiresAt : 0..MaxDay]
    /\ today' \in 0..MaxDay
    /\ interval_pc' = "requested"
    /\ UNCHANGED <<parsed, outside_interval>>

\* _parse_time_interval(params)
ParseTimeInterval ==
    /\ interval_pc = "requested"
    /\ parsed' = _parse_time_interval(params, today)
    /\ interval_pc' = "parsed"
    /\ UNCHANGED <<params, today, outside_interval>>

NextInterval == RequestInterval \/ ParseTimeInterval

SpecInterval == Init /\ [][NextInterval]_vars

(***************************************************************************)
(* Properties of the time interval                                         *)
(***************************************************************************)

\* C20: the request is rejected with an InvalidRequestError that carries a pointer
\* when validFrom is after expiresAt or after today, and is accepted otherwise.
C20_RejectsInvertedOrFuture ==
    interval_pc = "parsed" =>
        IF params.validFrom > params.expiresAt \/ params.validFrom > today
        THEN /\ parsed.error.kind = "InvalidRequestError"
             /\ parsed.error.pointer # ""
             /\ parsed.interval = <<>>
        ELSE /\ parsed.error = NoError
             /\ Len(parsed.interval) = 2

\* A window that starts and ends on the same past day has been accepted
C20_Witness ==
    /\ interval_pc = "parsed"
    /\ params.validFrom = params.expiresAt
    /\ params.validFrom < today
    /\ parsed.error = NoError

(***************************************************************************)
(* Properties of the lifetime filter                                       *)
(***************************************************************************)

\* The earliest started_at among the loaded rows of a check suite
SuiteStarted(t, suite) ==
    Min({t[i].started_at : i \in {k \in Rows(t) : t[k].check_suite_node_id = suite}})

\* The suite of the check run id started within [PR.created, PR.closed + 1 hour],
\* an open PR being closed at the time of the call
InLifetime(t, id, pr) ==
    LET started == SuiteStarted(t, RowOf(t, id).check_suite_node_id)
        closed == IF NodePullRequest[pr].closed_at = NaT
                  THEN Call.now ELSE NodePullRequest[pr].closed_at
    IN  NodePullRequest[pr].created_at <= started /\ started <= closed + 1

\* C21: after the first lap a check run is attributed to exactly those of its
\* candidate pull requests within whose lifetime [created, closed + 1 hour] (an open
\* PR counting as closed now) its suite started, the start of a suite being the
\* earliest started_at among the loaded runs of the suite; every loaded check run
\* stays in the table, and a run whose suite started outside the lifetime of every
\* candidate PR has exactly one row, without a pull request.
C21_LifetimeFilter ==
    cr_pc = "rejected" => \A id \in CheckRunIds(df_in) :
        LET kept == {p \in PullRequestsOf(df_in, id) : InLifetime(df_in, id, p)}
        IN  /\ PullRequestsOf(df, id) = kept
            /\ RowsOf(df, id) # {}
            /\ kept = {} =>
                /\ Cardinality(RowsOf(df, id)) = 1
                /\ \A i \in RowsOf(df, id) : df[i].pull_request_node_id = None

\* After the first lap: a run that started one hour after its PR was closed keeps
\* the PR, and a run with two candidate PRs, its suite started outside the lifetime of
\* both, is left with one row without a PR
C21_Witness ==
    /\ cr_pc = "rejected"
    /\ \E i \in Rows(df) :
        /\ df[i].pull_request_node_id = "A"
        /\ df[i].started_at = NodePullRequest["A"].closed_at + 1
    /\ \E id \in CheckRunIds(df_in) :
        /\ Cardinality(PullRequestsOf(df_in, id)) = 2
        /\ Cardinality(RowsOf(df_in, id)) >= 2
        /\ Cardinality(RowsOf(df, id)) = 1
        /\ PullRequestsOf(df, id) = {}

(***************************************************************************)
(* Properties of the suite-conclusion override                             *)
(***************************************************************************)

\* The conclusions of the runs of the suite of row k after the split
RunConclusions(t, k) ==
    {t[j].conclusion : j \in {i \in Rows(t) :
                                t[i].check_suite_node_id = t[k].check_suite_node_id}}

\* C22: after the re-run split, the rows of a suite whose conclusion was SUCCESS or
\* NEUTRAL and that has a run concluding TIMED_OUT, CANCELLED or FAILURE carry the
\* last of these three conclusions that is present (FAILURE over CANCELLED over
\* TIMED_OUT); the rows of every other suite keep the suite conclusion they had.
C22_SuiteConclusionOverride ==
    cr_pc = "split" => \A k \in Rows(df) :
        LET before == RowOf(df_in, df[k].check_run_node_id).check_suite_conclusion
            present == RunConclusions(df, k)
        IN  df[k].check_suite_conclusion =
                IF before \notin {"SUCCESS", "NEUTRAL"} THEN before
                ELSE IF "FAILURE" \in present THEN "FAILURE"
                ELSE IF "CANCELLED" \in present THEN "CANCELLED"
                ELSE IF "TIMED_OUT" \in present THEN "TIMED_OUT"
                ELSE before

\* After the split: a SUCCESS suite with a cancelled and a timed out run is CANCELLED,
\* while a successful re-run of the same stored suite, split into a suite of its own,
\* stays a SUCCESS
C22_Witness ==
    /\ cr_pc = "split"
    /\ \E k \in Rows(df) :
        /\ RowOf(df_in, df[k].check_run_node_id).check_suite_conclusion = "SUCCESS"
        /\ RunConclusions(df, k) = {"TIMED_OUT", "CANCELLED"}
        /\ df[k].check_suite_conclusion = "CANCELLED"
    /\ \E k \in Rows(df) :
        /\ RowOf(df_in, df[k].check_run_node_id).check_suite_conclusion = "SUCCESS"
        /\ RunConclusions(df, k) = {"SUCCESS"}
        /\ df[k].check_suite_conclusion = "SUCCESS"

(***************************************************************************)
(* Properties of the timeline granularity                                  *)
(***************************************************************************)

\* The length of the window
Window == time_to - time_from

\* One bucket per day: the bounds are the days from time_from on
Daily ==
    /\ timeline[1] = time_from
    /\ Len(timeline) = (Window \div TicksPerDay) + 1
    /\ \A i \in 1..(Len(timeline) - 1) : timeline[i + 1] - timeline[i] = timedelta_days(1)

\* One bucket per week: the bounds are a week apart from time_from on, the last
\* bucket ends at time_to
Weekly ==
    /\ timeline[1] = time_from
    /\ timeline[Len(timeline)] = time_to
    /\ \A i \in 1..(Len(timeline) - 2) : timeline[i + 1] - timeline[i] = timedelta_days(7)
    /\ Len(timeline) >= 2 =>
        timeline[Len(timeline)] - timeline[Len(timeline) - 1] <= timedelta_days(9)

\* The buckets are bounded by time_from, the first day of each month inside the
\* window (at the time of day of time_from) and time_to
Monthly ==
    Range(timeline) =
        {time_from, time_to} \cup
        {t \in time_from..time_to :
            /\ t % TicksPerDay = time_from % TicksPerDay
            /\ \E m \in DOMAIN MonthStartDays : t \div TicksPerDay = MonthStartDays[m]}

\* C23 as stated: a window of at most 35 days has one bucket per day, a longer
\* window of at most 150 days one bucket per week, and a longer one buckets bounded
\* by the first day of each month, the lengths of exactly 35 and 150 days included.
C23_GranularityUpTo ==
    tl_pc = "built" =>
        IF Window <= timedelta_days(35) THEN Daily
        ELSE IF Window <= timedelta_days(150) THEN Weekly
        ELSE Monthly

\* C23 amended: a window shorter than 35 days has one bucket per day, a window of
\* at least 35 days and shorter than 150 days one bucket per week, and a window of
\* at least 150 days buckets bounded by the first day of each month; a window of
\* exactly 35 days is weekly and one of exactly 150 days is monthly.
C23_GranularityBelow ==
    tl_pc = "built" =>
        IF Window < timedelta_days(35) THEN Daily
        ELSE IF Window < timedelta_days(150) THEN Weekly
        ELSE Monthly

\* The timeline of a window of exactly 35 days: five weeks
C23_Witness ==
    /\ tl_pc = "built"
    /\ Window = timedelta_days(35)
    /\ Len(timeline) = 6
    /\ Weekly /\ ~Daily

(***************************************************************************)
(* CHECK-RUN STATISTICS   (check_run_filter.py: filter_check_runs)         *)
(***************************************************************************)

\* The job names in the byte order of np.unique
CheckRunNameOrder == <<"build", "test">>

\* df_check_runs.take(completed): the rows of the suites that are over
completed_suites(t) ==
    SelectSeq(t, LAMBDA r : r.check_suite_status \in {"COMPLETED", "SUCCESS", "FAILURE"})

success_mask(r) == r.status = "SUCCESS" \/ r.conclusion = "SUCCESS"
skips_mask(r) == r.conclusion = "NEUTRAL"
failure_mask(r) ==
    r.status \in {"FAILURE", "ERROR"} \/ r.conclusion \in {"FAILURE", "STALE"}

\* completed_ats - started_ats, NaT without completed_at
elapseds(r) == IF r.completed_at = NaT THEN NaT ELSE r.completed_at - r.started_at

\* CodeCheckRunListStats of the rows in mask; execution_times are the values that
\* np.mean and np.median are taken of, the quantiles being (0, 1)
CodeCheckRunListStats(t, mask) ==
    LET timed == Ascending({i \in mask : elapseds(t[i]) # NaT})
    IN  [count |-> Cardinality(mask),
         successes |-> Cardinality({i \in mask : success_mask(t[i])}),
         skips |-> Cardinality({i \in mask : skips_mask(t[i])}),
         flaky_count |-> Cardinality(
            {t[i].commit_node_id : i \in {j \in mask : success_mask(t[j]) \/ skips_mask(t[j])}}
            \cap {t[i].commit_node_id : i \in {j \in mask : failure_mask(t[j])}}),
         execution_times |-> [k \in DOMAIN timed |-> elapseds(t[timed[k]])]]

\* One item of the list: the check runs of one repository and name
CodeCheckRunListItem(t, name) ==
    LET total == {i \in Rows(t) : t[i].name = name}
        prs == {i \in total : t[i].pull_request_node_id # None}
    IN  [title |-> name,
         repository |-> t[CHOOSE i \in total : TRUE].repository_full_name,
         last_execution_time |-> Max({t[i].started_at : i \in total}),
         total_stats |-> CodeCheckRunListStats(t, total),
         prs_stats |-> CodeCheckRunListStats(t, prs)]

\* The list that filter_check_runs returns for the table of mine_check_runs
filter_check_runs(t) ==
    LET rows == completed_suites(t)
        names == SelectSeq(CheckRunNameOrder,
                           LAMBDA n : \E i \in Rows(rows) : rows[i].name = n)
    IN  [k \in DOMAIN names |-> CodeCheckRunListItem(rows, names[k])]

\* filter_check_runs after mine_check_runs returned
FilterCheckRuns ==
    /\ cr_pc = "done"
    /\ filter_pc = "idle"
    /\ check_run_stats' = filter_check_runs(df)
    /\ filter_pc' = "returned"
    /\ UNCHANGED outside_filter

\* The exception of mine_check_runs leaves filter_check_runs
FilterCheckRunsRaises ==
    /\ cr_pc = "failed"
    /\ filter_pc = "idle"
    /\ filter_pc' = "raised"
    /\ UNCHANGED <<check_run_stats, outside_filter>>

NextFilter == StoreWindowRun \/ MineCheckRuns \/ FilterCheckRuns \/ FilterCheckRunsRaises
SpecFilter == Init /\ [][NextFilter]_vars

\* The check run was launched within [time_from, time_to]
LaunchedInWindow(r) == Call.time_from <= r.started_at /\ r.started_at <= Call.time_to

\* C24: the statistics that filter_check_runs returns (count, successes, skips,
\* flaky_count, execution times) are those of the check runs launched within
\* [time_from, time_to]: the runs that mine_check_runs loaded from outside the window
\* do not enter them.
C24_StatisticsOfWindow ==
    filter_pc = "returned" =>
        check_run_stats = filter_check_runs(SelectSeq(df, LaunchedInWindow))

(***************************************************************************)
(* LABEL FILTER   (check_run.py: mine_check_runs with labels)              *)
(***************************************************************************)

\* The lower-cased labels of the pull requests of the metadata store
PullRequestLabel == [A |-> {"bug"}, B |-> {"bug", "wip"}, C |-> {"wip"}, D |-> {}]

\* The label filters of single labels: nothing, include, exclude or both
LabelFilters == {[include |-> i, exclude |-> e] : i \in {{}, {"bug"}}, e \in {{}, {"wip"}}}

\* `if labels:`
labels_given(l) == l.include # {} \/ l.exclude # {}

\* not multiples and not labels.exclude, for a filter of single labels
embedded_labels_query(l) == l.exclude = {}

\* The first query under a label filter: the rows inside [time_from, time_to] whose
\* PR carries an included label, or any PR when labels are excluded
main_check_runs(db, l) ==
    LET inside(r) == Call.time_from <= r.started_at /\ r.started_at <= Call.time_to
        passes(r) ==
            IF ~labels_given(l) THEN TRUE
            ELSE IF l.exclude = {}
            THEN /\ r.pull_request_node_id # None
                 /\ PullRequestLabel[r.pull_request_node_id] \cap l.include # {}
            ELSE r.pull_request_node_id # None
    IN  SelectSeq(db, LAMBDA r : inside(r) /\ passes(r))

\* The queries of mine_check_runs under a label filter
read_check_runs_by_labels(db, l) ==
    LET main == main_check_runs(db, l)
        pr_node_ids == {main[i].pull_request_node_id : i \in Rows(main)} \ {None}
        mentioned(r) == r.pull_request_node_id \in pr_node_ids
        before(r) == mentioned(r) /\ r.started_at < Call.time_from
        after(r) == mentioned(r) /\ r.started_at >= Call.time_to
    IN  main \o SelectSeq(db, before) \o SelectSeq(db, after)

\* The index of df_labels: the PRs of the first query that carry a label
df_labels(db, l) ==
    LET main == main_check_runs(db, l)
    IN  {p \in {main[i].pull_request_node_id : i \in Rows(main)} \ {None} :
            PullRequestLabel[p] # {}}

\* PullRequestMiner.find_left_by_labels: the PRs with an included label, if any is
\* asked for, and without an excluded one
find_left_by_labels(index, l) ==
    {p \in index : /\ l.include # {} => PullRequestLabel[p] \cap l.include # {}
                   /\ PullRequestLabel[p] \cap l.exclude = {}}

_filter_by_pr_labels(t, l, index) ==
    IF embedded_labels_query(l) THEN t
    ELSE SelectSeq(t, LAMBDA r : r.pull_request_node_id \in find_left_by_labels(index, l))

\* mine_check_runs, lines 72-128, called with a label filter
ReadCheckRunsByLabels ==
    /\ cr_pc = "stored"
    /\ \E l \in LabelFilters :
        /\ labels' = l
        /\ df' = read_check_runs_by_labels(mdb, l)
    /\ df_in' = <<>>
    /\ cr_pc' = "read"
    /\ UNCHANGED <<mdb, label_pc, outside_miner_label>>

\* mine_check_runs, lines 259-261: the deferred filter
FilterByPRLabels ==
    /\ cr_pc = "disambiguated"
    /\ labels_given(labels)
    /\ label_pc = "idle"
    /\ df' = _filter_by_pr_labels(df, labels, df_labels(mdb, labels))
    /\ label_pc' = "filtered"
    /\ UNCHANGED <<mdb, df_in, cr_pc, labels, outside_miner_label>>

NextLabels ==
    \/ StoreCommitRun
    \/ ReadCheckRunsByLabels
    \/ RejectByLifetimes
    \/ Disambiguate
    \/ FilterByPRLabels
    \/ MergeStatusContexts
    \/ SplitDuplicateCheckRuns
    \/ Finalize
SpecLabels == Init /\ [][NextLabels]_vars

\* The tables that the two laps give without a label filter
Unlabelled == UNION {disambiguate(t) : t \in {reject_by_pr_lifetimes(read_check_runs(mdb))}}

\* C25: every check run that is left under a label filter is attributed to the pull
\* request (or to none) that it is attributed to without a label filter, for the
\* same stored data and window.
C25_SameAttribution ==
    label_pc = "filtered" => \A i \in Rows(df) :
        \E t \in Unlabelled : \E j \in Rows(t) :
            /\ t[j].check_run_node_id = df[i].check_run_node_id
            /\ t[j].pull_request_node_id = df[i].pull_request_node_id

(***************************************************************************)
(* LABEL SYNC   (heat_cache.py: sync_labels)                               *)
(***************************************************************************)

\* The bounds of the stored rows and of the calls; the batches of 1000 updates are
\* scaled down to BatchSize
MaxFacts == 3
MaxSyncCalls == 2
BatchSize == 2

\* The pull requests of the metadata store with the names of their labels; the pull
\* request 3 has rows in the precomputed store only
SyncedPullRequestLabel == [n \in {1, 2} |-> IF n = 1 THEN {"Bug", "wip"} ELSE {}]
FactsPullRequests == {1, 2, 3}

\* func.lower(PullRequestLabel.name)
func_lower(name) == IF name = "Bug" THEN "bug" ELSE name

\* The labels mappings {name: ""} are written as the sets of their keys
StoredLabels == SUBSET {"bug", "wip"}

\* unique_prs[found_mask]: the stored pull requests that the metadata store has
found_prs(facts) ==
    {facts[i].pr_node_id : i \in DOMAIN facts} \cap DOMAIN SyncedPullRequestLabel

\* actual_labels after the label queries of the found pull requests
actual_labels(facts) ==
    [p \in {q \in found_prs(facts) : SyncedPullRequestLabel[q] # {}} |->
        {func_lower(name) : name \in SyncedPullRequestLabel[p]}]

\* actual_labels.get(row[0], {})
actual_labels_get(facts, pr) ==
    IF pr \in DOMAIN actual_labels(facts) THEN actual_labels(facts)[pr] ELSE {}

\* The rows of one table in the order of the query
rows_of(facts, model) == SelectSeq(facts, LAMBDA row : row.model = model)

\* The updates that sync_labels creates: one for each row, the done rows first,
\* whose labels differ from actual_labels
update_tasks(facts) ==
    LET rows == rows_of(facts, "done") \o rows_of(facts, "merged")
        stale == SelectSeq(rows,
                    LAMBDA row : actual_labels_get(facts, row.pr_node_id) # row.labels)
    IN  [k \in DOMAIN stale |->
            [model |-> stale[k].model, pr_node_id |-> stale[k].pr_node_id,
             labels |-> actual_labels_get(facts, stale[k].pr_node_id)]]

\* update(model).where(model.pr_node_id == row[0]).values({model.labels: pr_labels})
pdb_execute(facts, task) ==
    [i \in DOMAIN facts |->
        IF facts[i].model = task.model /\ facts[i].pr_node_id = task.pr_node_id
        THEN [facts[i] EXCEPT !.labels = task.labels]
        ELSE facts[i]]

\* The rows after the updates at the positions done of the batch, in their order
RECURSIVE gather_batch(_, _, _, _)
gather_batch(facts, batch, done, k) ==
    IF k > Len(batch) THEN facts
    ELSE gather_batch(IF k \in done THEN pdb_execute(facts, batch[k]) ELSE facts,
                      batch, done, k + 1)

\* The precomputed store receives one more row of PR facts
StoreFacts ==
    /\ sync_pc = "idle"
    /\ sync_codes = <<>>
    /\ Len(pdb_facts) < MaxFacts
    /\ \E model \in {"done", "merged"}, pr \in FactsPullRequests, given \in StoredLabels :
        pdb_facts' = Append(pdb_facts,
                            [model |-> model, pr_node_id |-> pr, labels |-> given])
    /\ UNCHANGED <<sync_tasks, sync_batch, sync_issued, sync_codes, sync_pc, outside_sync>>

\* sync_labels returns code
sync_return(code, issued) ==
    /\ sync_codes' = Append(sync_codes, code)
    /\ sync_issued' = Append(sync_issued, issued)
    /\ sync_pc' = "returned"

\* sync_labels, lines 416-481: the queries and the list of the updates
SyncLabelsQueries ==
    /\ sync_pc = "idle"
    /\ Len(sync_codes) < MaxSyncCalls
    /\ \E raised \in BOOLEAN :
        IF found_prs(pdb_facts) = {}
        THEN sync_return(0, 0) /\ UNCHANGED sync_tasks
        ELSE IF raised
        THEN sync_return(1, 0) /\ UNCHANGED sync_tasks
        ELSE IF update_tasks(pdb_facts) = <<>>
        THEN sync_return(0, 0) /\ UNCHANGED sync_tasks
        ELSE /\ sync_tasks' = update_tasks(pdb_facts)
             /\ sync_issued' = Append(sync_issued, Len(update_tasks(pdb_facts)))
             /\ sync_pc' = "updating"
             /\ UNCHANGED sync_codes
    /\ UNCHANGED <<pdb_facts, sync_batch, outside_sync>>

\* sync_labels, lines 485-487: the next batch is started
SyncLabelsBatch ==
    /\ sync_pc = "updating"
    /\ sync_batch' = SubSeq(sync_tasks, 1, Min({BatchSize, Len(sync_tasks)}))
    /\ sync_tasks' = SubSeq(sync_tasks, Min({BatchSize, Len(sync_tasks)}) + 1, Len(sync_tasks))
    /\ sync_pc' = "gather"
    /\ UNCHANGED <<pdb_facts, sync_issued, sync_codes, outside_sync>>

\* sync_labels, lines 486-493: gather(*batch) returns or raises, the updates at the
\* positions done having been executed
SyncLabelsGathered ==
    /\ sync_pc = "gather"
    /\ \E done \in SUBSET DOMAIN sync_batch :
        /\ pdb_facts' = gather_batch(pdb_facts, sync_batch, done, 1)
        /\ IF done # DOMAIN sync_batch
           THEN /\ sync_codes' = Append(sync_codes, 1)
                /\ sync_pc' = "returned"
           ELSE IF sync_tasks = <<>>
           THEN /\ sync_codes' = Append(sync_codes, 0)
                /\ sync_pc' = "returned"
           ELSE /\ sync_pc' = "updating"
                /\ UNCHANGED sync_codes
    /\ sync_batch' = <<>>
    /\ UNCHANGED <<sync_tasks, sync_issued, outside_sync>>

\* The heater runs again, on the same data
SyncLabelsAgain ==
    /\ sync_pc = "returned"
    /\ Len(sync_codes) < MaxSyncCalls
    /\ sync_pc' = "idle"
    /\ sync_tasks' = <<>>
    /\ UNCHANGED <<pdb_facts, sync_batch, sync_issued, sync_codes, outside_sync>>

NextSync ==
    \/ StoreFacts
    \/ SyncLabelsQueries
    \/ SyncLabelsBatch
    \/ SyncLabelsGathered
    \/ SyncLabelsAgain
SpecSync == Init /\ [][NextSync]_vars

\* The lower-cased metadata labels of a pull request, none when it has none
MetadataLabels(pr) ==
    IF pr \in DOMAIN SyncedPullRequestLabel
    THEN {func_lower(name) : name \in SyncedPullRequestLabel[pr]}
    ELSE {}

\* The stored rows whose labels differ from the metadata labels
Differing == {i \in DOMAIN pdb_facts : pdb_facts[i].labels # MetadataLabels(pdb_facts[i].pr_node_id)}

\* C27: sync_labels creates one update for each stored row whose labels differ from
\* the lower-cased metadata labels of its PR (no labels when the PR has none), at
\* most BatchSize updates are awaited together, a call in which nothing failed
\* returns 0 with every stored row equal to the metadata labels, and a second call
\* on unchanged data creates no update.
C27_LabelsSynced ==
    /\ Len(sync_batch) <= BatchSize
    /\ (sync_pc = "updating" /\ Len(sync_tasks) = sync_issued[Len(sync_issued)])
        => Len(sync_tasks) = Cardinality(Differing)
    /\ (sync_pc = "returned" /\ sync_codes[Len(sync_codes)] = 0) => Differing = {}
    /\ (Len(sync_issued) = 2 /\ sync_codes[1] = 0) => sync_issued[2] = 0

(***************************************************************************)
(* LATENCY ACCOUNTING   (db.py: measure_db_overhead_and_retry)             *)
(***************************************************************************)

\* The longest attempt of the wrapped method, in tenths of a second
MaxDuration == 2

\* finally: delta = time.time() - start_time; elapsed[db_id] += delta
add_elapsed(elapsed, time, start) == elapsed + (time - start)

\* The wrapped method is called: start_time = time.time()
CallMeasured ==
    /\ retry_pc = "idle"
    /\ \E class \in ConnectionBackends, in_transaction \in BOOLEAN :
        /\ connection' = [class |-> class, in_transaction |-> in_transaction]
        /\ wait_intervals' = chosen_wait_intervals(connection')
    /\ start_time' = clock
    /\ retry_pc' = "calling"
    /\ UNCHANGED <<attempts, slept, clock, db_elapsed, outside_retry_elapsed>>

\* One iteration of the loop: await func(*args, **kwargs) takes some time and returns
\* or raises; `finally` follows at once unless the handler goes to sleep first
AttemptMeasured ==
    /\ retry_pc = "calling"
    /\ \E outcome \in Outcomes, duration \in 0..MaxDuration :
        /\ attempts' = Append(attempts, outcome)
        /\ clock' = clock + duration
        /\ retry_pc' = IF outcome = "result" THEN "returned"
                       ELSE IF outcome \notin ConnectivityErrors THEN "raised"
                       ELSE IF wait_intervals[Len(attempts')] = NoWait THEN "raised"
                       ELSE "sleeping"
        /\ db_elapsed' = IF retry_pc' = "sleeping" THEN db_elapsed
                         ELSE add_elapsed(db_elapsed, clock', start_time)
    /\ UNCHANGED <<connection, wait_intervals, slept, start_time, outside_retry_elapsed>>

\* await asyncio.sleep(wait_time) has finished, `finally` of the iteration follows
SleptMeasured ==
    /\ retry_pc = "sleeping"
    /\ slept' = Append(slept, wait_intervals[Len(attempts)])
    /\ clock' = clock + wait_intervals[Len(attempts)]
    /\ db_elapsed' = add_elapsed(db_elapsed, clock', start_time)
    /\ retry_pc' = "calling"
    /\ UNCHANGED <<connection, wait_intervals, attempts, start_time, outside_retry_elapsed>>

NextElapsed == CallMeasured \/ AttemptMeasured \/ SleptMeasured
SpecElapsed == Init /\ [][NextElapsed]_vars

\* C29: when a wrapped call has returned or raised, the amount added to
\* db_elapsed[db_id] is the time from the start of the call to its return or raise,
\* whatever the number of retries.
C29_ElapsedCountedOnce ==
    retry_pc \in {"returned", "raised"} => db_elapsed = clock - start_time

(***************************************************************************)
(* Properties of the write-serialization lock                              *)
(***************************************************************************)

\* The task is between the acquisition of the lock and the point where execute(),
\* commit_transaction() or rollback_transaction() gives it back
InsideLock(t) == db_tasks[t].pc \in {"execute_locked", "starting"} \/ db_tasks[t].tx

\* C28: on SQLite, whenever no task is inside an execute() that took the lock, inside
\* the start of a transaction or inside an open transaction - every such call having
\* ended, by a result or by a failure - the lock is free and no connection has
\* _locked set, so that a waiting writer can acquire it.
C28_LockGivenBack ==
    (dialect = "sqlite" /\ \A t \in DOMAIN db_tasks : ~InsideLock(t)) =>
        /\ serialization_lock = "free"
        /\ \A c \in DOMAIN connections : ~connections[c]._locked

(***************************************************************************)
(* Properties of the steps of one account                                  *)
(***************************************************************************)

\* An operation is called for the reposet id in this step
CalledNow(id) == \E j \in DOMAIN calls' : j > Len(calls) /\ calls'[j].reposet = id

\* A step of this kind has failed for the reposet id
FailedStep(steps, id) ==
    \E k \in DOMAIN log :
        log[k].level = "failed" /\ log[k].step \in steps /\ log[k].reposet = id

\* C26 as stated: once the prolog, the team creation, the JIRA identity matching or a
\* step of the mining block has failed for an account, no later operation is called
\* for the reposet of that account in the same pass.
C26_NoStepAfterFailure ==
    [][\A id \in 1..MaxReposets :
        FailedStep({"prolog", "teams", "match_jira_identities", "reposet"}, id)
            => ~CalledNow(id)]_vars

\* C26 amended: once the prolog or a step of the mining block has failed for an
\* account, no later operation is called for the reposet of that account in the same
\* pass; a failure of the team creation or of the JIRA identity matching is logged
\* and recorded, and the steps after it are run.
C26_NoStepAfterPrologOrMiningFailure ==
    [][\A id \in 1..MaxReposets :
        FailedStep({"prolog", "reposet"}, id) => ~CalledNow(id)]_vars

\* The heater has exited; the team creation failed for a reposet, its pull request
\* facts were mined all the same, and then a step of its mining block failed
C26_Witness ==
    /\ heater_pc = "exited"
    /\ FailedStep({"teams"}, 1)
    /\ FailedStep({"reposet"}, 1)
    /\ \E j \in DOMAIN calls :
        calls[j].reposet = 1 /\ calls[j].op = "calc_pull_request_facts_github"
    /\ \A j \in DOMAIN calls :
        calls[j].reposet = 1 => calls[j].op # "mine_deployments"

\* C30: when the heater exits, no account is both in successful_accounts and in
\* failed_accounts, and no step has failed for a successful account.
C30_SuccessfulNeverFailed ==
    heater_pc = "exited" =>
        /\ successful_accounts \cap failed_accounts = {}
        /\ \A k \in DOMAIN log :
            log[k].level = "failed" => log[k].account \notin successful_accounts

====
